---------------------------- MODULE Spec2Model ----------------------------
(***************************************************************************)
(* A model of vzclient: the byte Buffer (vzclient/buffer.py), the          *)
(* InfluxHub relay (vzclient/asyncio/influx_hub.py) with its reader tasks, *)
(* writer tasks and stop(), the Compressor, the DeviceReader, the          *)
(* DatabaseCopy, the MySqlDriver as reader, the InfluxDriver as writer and *)
(* the Service.                                                            *)
(*                                                                         *)
(* Specifications:                                                         *)
(*   SpecBuf    one Buffer object driven by write() and clear() calls      *)
(*   Spec       the hub as the repository has it: readers, writers, stop() *)
(*   SpecClear  the hub with a Buffer whose clear() empties it, as its     *)
(*              callers expect; the queue is fed and the writers send      *)
(*   SpecComp   one Compressor (vzclient/compress.py) called with an       *)
(*              iterable of samples                                        *)
(*   SpecDev    one DeviceReader (vzclient/asyncio/device_reader.py)       *)
(*              iterated over readings and failed reads, and stopped       *)
(*   SpecInterp an interpolating DeviceReader up to its first emission,    *)
(*              over a wider range of readings                             *)
(*   SpecStop   one DeviceReader iterated, with calls of stop()            *)
(*   SpecPlan   DatabaseCopy.copy() (vzclient/asyncio/database_copy.py)    *)
(*              making its jobs for one channel of any attributes          *)
(*   SpecCopy   DatabaseCopy.copy() and the tasks it gathers               *)
(*   SpecSql    MySqlDriver.iter_chunks (vzclient/asyncio/mysql_driver.py) *)
(*              over a table of rows                                       *)
(*   SpecSink   one InfluxDriver (vzclient/asyncio/influx_driver.py) used  *)
(*              as a writer and released                                   *)
(*   SpecPrefix one call of InfluxDriver.get_prefix                        *)
(*   SpecService one Service (vzclient/service.py), its scope and the      *)
(*              signals delivered to the process                           *)
(*   SpecFill   the hub with short records and a wider Buffer, which the   *)
(*              records fill without cutting one                           *)
(*   SpecFillClear  the same with a Buffer whose clear() empties it        *)
(*   SpecAsync  compress_const of vzclient/asyncio/compress.py over the    *)
(*              chunks of an asynchronous sequence                         *)
(*   SpecSecond one DeviceReader iterated and stopped, with a second       *)
(*              iteration started on it                                    *)
(*   SpecAgain  the hub as the repository has it, with stop() called more  *)
(*              than once                                                  *)
(*                                                                         *)
(* Tasks follow asyncio of Python 3.8 and later: CancelledError is not an  *)
(* Exception. A task created by connect_reader or connect_writer runs its  *)
(* first step before any task runs a later one.                            *)
(***************************************************************************)
EXTENDS Integers, Sequences, FiniteSets, TLC

VARIABLES
    buf,        \* the Buffer object (storage, bytes_in_buffer, high_water_mark);
                \* in the hub specifications it is InfluxHub._buffer
    lastOp,     \* SpecBuf: the last call made on buf: "init", "write" or "clear"
    lastArgLen, \* SpecBuf: total length of the arguments of the last write call
    lastLen,    \* SpecBuf: len(buf) right before the last call
    lastRet,    \* SpecBuf: what the last call returned, or the exception it raised
    written,    \* SpecBuf: concatenation of the arguments of all write calls so far
    fits,       \* SpecBuf: the arguments of all write calls so far fit the capacity
    max_retries,    \* InfluxHub.max_retries
    t_buffer,       \* InfluxHub._t_buffer (NoTime for None)
    output_queue,   \* InfluxHub._output_queue: the batches waiting, oldest first
    unfinished,     \* the queue's count of batches put and not yet marked done
    future,         \* InfluxHub._future: "pending", "result" or "exception"
    readers,        \* InfluxHub._readers: the state of each wrap_reader task
    reader_cancel,  \* reader tasks with a cancellation requested and not yet delivered
    samples,        \* number of samples each reader's stream has yielded
    writers,        \* InfluxHub._writers: the state of each wrap_writer task
    writer_cancel,  \* writer tasks with a cancellation requested and not yet delivered
    batch,          \* wrap_writer's local data (NoData for None), per writer
    retry,          \* wrap_writer's local retry, per writer
    cancel,         \* wrap_writer's local cancel, per writer
    stop_pc,        \* where the current call of stop() is
    errors,         \* stop()'s local errors
    stops,          \* number of stop() calls made
    appended,       \* history: the samples whose record was written to the buffer
    enqueued,       \* history: the batches put on the output queue, in order
    accepted,       \* history: the batches whose insert returned, in order
    discarded,      \* history: the batches given up, with their failed attempts
    overflowed,     \* history: a Buffer.write call of a reader raised BufferError
    sends,          \* history: insert calls made for the batch in hand, per writer
    fails,          \* history: failed attempts on the batch in hand, per writer
    compressor,     \* the Compressor object (max_gap, _x0, _y0, _xn, _yn)
    chunk,          \* the samples Compressor.__call__ has taken from its iterable
    yielded,        \* the samples Compressor.__call__ has yielded
    comp_pc,        \* where Compressor.__call__ is: "iter", "compress" or "done"
    reader,         \* the DeviceReader object (its attributes)
    aiter_pc,       \* where DeviceReader.__aiter__ is: "new", "prime", "steady",
                    \* "raised" or "ended"
    exc,            \* the exception __aiter__ has raised ("none" for none)
    budget,         \* history: allowed_errors as the reader was constructed
    reads,          \* history: calls of read_device made
    failed,         \* history: calls of read_device that raised
    emitted,        \* history: the samples __aiter__ has yielded, in order
    stop_call,      \* the call of DeviceReader.stop in progress or made last:
                    \* where it is, its local max_retries, what it returned
    channels,       \* DatabaseCopy: the list get_channels returned
    excludes,       \* DatabaseCopy._excludes: attribute -> list of patterns
    includes,       \* DatabaseCopy._includes: (pattern, options) in list order
    jobs,           \* the local jobs of copy(): the calls of copy_channel
    copy_tasks,     \* the state of the task gather runs for each job
    copy_pc,        \* where copy() is: "new", "gather", "returned" or "raised"
    running,        \* history: the tasks not yet complete when copy() ended
    sql_rows,       \* MySqlDriver: the rows of the data table, (channel_id, timestamp)
    sql_args,       \* the arguments of iter_chunks: channel id, begin, end, chunk_size
    sql_where,      \* the local where of iter_measurements: the bounds on timestamp
    sql_pc,         \* where iter_measurements is: "new", "loop", "done" or "raised"
    sql_chunks,     \* history: the chunks iter_chunks has yielded, in order
    sink,           \* InfluxDriver as writer: _prefix, _buffer,
                    \* _high_water_mark, _bytes_in_buffer, connected
    sink_pc,        \* where the caller of the writer is: "idle", "write",
                    \* "flush" or "released"
    sink_chunk,     \* the samples of the chunk write_chunk has yet to write
    sink_sent,      \* history: the data of every write the sink accepted, in order
    sink_passed,    \* history: the samples passed to write_chunk, in order
    sink_failed,    \* history: a write of the sink has failed
    prefix_args,    \* the arguments of a call of InfluxDriver.get_prefix:
                    \* measurement, tags, field_name
    prefix_out,     \* what the call returned (<<>> before it has)
    svc,            \* the Service object: cancel, signum, _saved_signals,
                    \* _signals, _callback, _callback_result
    handlers,       \* the handler the process has installed for each signal
    svc_pc,         \* where the scope of the Service is: "new", "inside",
                    \* "exiting" or "left"
    svc_runs,       \* the runs of an asynchronous callback: running or done,
                    \* scheduled inside the scope or not
    svc_hist,       \* history: the handlers before the first entry, the calls
                    \* of enable, the signals delivered, the runs of
                    \* handle_signal, the calls of the callback, an exception
                    \* raised by enable or disable
    async_comp,     \* asynchronous compress_const: its local compressor
    async_in,       \* history: the chunks its stream has delivered, in order
    async_out,      \* history: the lists it has yielded, in order
    async_pc,       \* where it is: "first", "loop", "done" or "raised"
    second_iter     \* a second iteration of the DeviceReader: where its
                    \* __aiter__ is, and the samples it has yielded

bufVars == <<buf, lastOp, lastArgLen, lastLen, lastRet, written, fits>>

hubVars ==
    <<max_retries, t_buffer, output_queue, unfinished, future, readers,
      reader_cancel, samples, writers, writer_cancel, batch, retry, cancel,
      stop_pc, errors, stops>>

histVars == <<appended, enqueued, accepted, discarded, overflowed, sends, fails>>

compVars == <<compressor, chunk, yielded, comp_pc>>

\* the objects no Buffer call and no hub step touches
devVars == <<reader, aiter_pc, exc, budget, reads, failed, emitted, stop_call>>

copyVars ==
    <<channels, excludes, includes, jobs, copy_tasks, copy_pc, running>>

sqlVars == <<sql_rows, sql_args, sql_where, sql_pc, sql_chunks>>

sinkWriterVars ==
    <<sink, sink_pc, sink_chunk, sink_sent, sink_passed, sink_failed>>

prefixVars == <<prefix_args, prefix_out>>

svcVars == <<svc, handlers, svc_pc, svc_runs, svc_hist>>

asyncVars == <<async_comp, async_in, async_out, async_pc>>

laterVars == <<asyncVars, second_iter>>

\* the objects of the later sections
moreVars ==
    <<copyVars, sqlVars, sinkWriterVars, prefixVars, svcVars, laterVars>>

otherVars == <<compVars, devVars, moreVars>>

vars == <<hubVars, histVars, bufVars, otherVars>>

-----------------------------------------------------------------------------
(* Bounds *)

\* largest capacity a Buffer is constructed with in SpecBuf
MaxCapacity == 3
\* most arguments of one write call
MaxArgs == 2
\* longest single argument of a write call
MaxArgLen == 2

\* the byte values written in SpecBuf
Bytes == {1, 2}

-----------------------------------------------------------------------------
(* Helpers *)

\* the exception names used; NoExc marks a call that returned
NoExc == "none"

\* a call's outcome: the exception it raised (or NoExc) and the value it returned
Returned(v) == [exc |-> NoExc, value |-> v]
Raised(e) == [exc |-> e, value |-> 0]

RECURSIVE Concat(_)
\* b"".join(args)
Concat(args) == IF args = <<>> THEN <<>> ELSE Head(args) \o Concat(Tail(args))

\* all sequences over S of length lo..hi
SeqsOf(S, lo, hi) == UNION {[1..n -> S] : n \in lo..hi}

-----------------------------------------------------------------------------
(* vzclient/buffer.py: class Buffer *)

\* the attributes class Buffer defines
BufferAttrs ==
    {"__init__", "capacity", "high_water_mark", "__len__", "data", "is_full", "write"}

\* Buffer.capacity
capacity(b) == Len(b.storage)

\* the default high_water_mark=None of Buffer.__init__
NoMark == -1

\* Buffer.__init__(capacity, high_water_mark), for a mark that does not exceed
\* the capacity (the constructor raises ValueError otherwise)
BufferNew(cap, hwm) ==
    [storage |-> [i \in 1..cap |-> 0],
     bytes_in_buffer |-> 0,
     high_water_mark |-> IF hwm = NoMark THEN (9 * cap) \div 10 ELSE hwm]

\* Buffer.__len__
BufLen(b) == b.bytes_in_buffer

\* Buffer.data
data(b) == SubSeq(b.storage, 1, b.bytes_in_buffer)

\* Buffer.is_full
is_full(b) == b.bytes_in_buffer >= b.high_water_mark

\* the slice assignment self._storage[begin:end] = x, for end <= capacity
SetSlice(storage, begin, x) ==
    [i \in 1..Len(storage) |->
        IF i > begin /\ i <= begin + Len(x) THEN x[i - begin] ELSE storage[i]]

\* (mutant) the argument is copied to the start of the storage
WriteArgAtZero(b, x) ==
    [b EXCEPT !.storage = SetSlice(b.storage, 0, x),
              !.bytes_in_buffer = b.bytes_in_buffer + Len(x)]

\* one pass of the loop of Buffer.write for an argument that fits
WriteArg(b, x) ==
    [b EXCEPT !.storage = SetSlice(b.storage, b.bytes_in_buffer, x),
              !.bytes_in_buffer = b.bytes_in_buffer + Len(x)]

RECURSIVE WriteLoop(_, _)
\* the loop of Buffer.write: the buffer it leaves and whether it raised
WriteLoop(b, args) ==
    IF args = <<>> THEN [buf |-> b, raised |-> FALSE]
    ELSE IF b.bytes_in_buffer + Len(Head(args)) > capacity(b)
         THEN [buf |-> b, raised |-> TRUE]
         ELSE WriteLoop(WriteArg(b, Head(args)), Tail(args))

\* Buffer.write(*args): the buffer it leaves, and the number of bytes written
\* or the exception raised
BufWrite(b, args) ==
    LET r == WriteLoop(b, args)
    IN [buf |-> r.buf,
        ret |-> IF r.raised THEN Raised("BufferError")
                ELSE Returned(r.buf.bytes_in_buffer - b.bytes_in_buffer)]

\* the clear() the callers of Buffer expect (tests/buffer.py test_clear,
\* InfluxHub.flush_buffer): the content is dropped, the capacity kept
ClearDocumented(b) == [b EXCEPT !.bytes_in_buffer = 0]

\* the call buf.clear() on an object with the attributes attrs. class Buffer
\* defines no clear, so the attribute lookup raises AttributeError and the
\* object is left as it was.
BufClear(b, attrs) ==
    IF "clear" \in attrs
    THEN [buf |-> ClearDocumented(b), ret |-> Returned(0)]
    ELSE [buf |-> b, ret |-> Raised("AttributeError")]

-----------------------------------------------------------------------------
(* SpecBuf: one Buffer, any sequence of write and clear calls *)

\* no Compressor is constructed in the Buffer and hub specifications
NoCompressor ==
    /\ compressor = <<>>
    /\ chunk = <<>>
    /\ yielded = <<>>
    /\ comp_pc = "none"

\* no DeviceReader is constructed in the Buffer, hub and Compressor
\* specifications
NoDevice ==
    /\ reader = <<>>
    /\ aiter_pc = "none"
    /\ exc = "none"
    /\ budget = 0
    /\ reads = 0
    /\ failed = 0
    /\ emitted = <<>>
    /\ stop_call = <<>>

\* no DatabaseCopy is constructed
NoCopy ==
    /\ channels = <<>>
    /\ excludes = <<>>
    /\ includes = <<>>
    /\ jobs = <<>>
    /\ copy_tasks = <<>>
    /\ copy_pc = "none"
    /\ running = {}

\* no MySqlDriver is constructed
NoSql ==
    /\ sql_rows = {}
    /\ sql_args = <<>>
    /\ sql_where = <<>>
    /\ sql_pc = "none"
    /\ sql_chunks = <<>>

\* no InfluxDriver is constructed as a writer
NoSink ==
    /\ sink = <<>>
    /\ sink_pc = "none"
    /\ sink_chunk = <<>>
    /\ sink_sent = <<>>
    /\ sink_passed = <<>>
    /\ sink_failed = FALSE

\* get_prefix is not called
NoPrefix ==
    /\ prefix_args = <<>>
    /\ prefix_out = <<>>

\* no Service is constructed
NoService ==
    /\ svc = <<>>
    /\ handlers = <<>>
    /\ svc_pc = "none"
    /\ svc_runs = <<>>
    /\ svc_hist = <<>>

\* the asynchronous compress_const is not called
NoAsync ==
    /\ async_comp = <<>>
    /\ async_in = <<>>
    /\ async_out = <<>>
    /\ async_pc = "none"

\* the DeviceReader is not iterated a second time
NoSecond == second_iter = [pc |-> "none", emitted |-> <<>>]

NoLater == NoAsync /\ NoSecond

\* none of the objects of the later sections is constructed
NoMore == NoCopy /\ NoSql /\ NoSink /\ NoPrefix /\ NoService /\ NoLater

\* no hub is constructed in SpecBuf
NoHub ==
    /\ max_retries = 0
    /\ t_buffer = 0
    /\ output_queue = <<>>
    /\ unfinished = 0
    /\ future = "none"
    /\ readers = <<>>
    /\ reader_cancel = <<>>
    /\ samples = <<>>
    /\ writers = <<>>
    /\ writer_cancel = <<>>
    /\ batch = <<>>
    /\ retry = <<>>
    /\ cancel = <<>>
    /\ stop_pc = "idle"
    /\ errors = {}
    /\ stops = 0
    /\ appended = <<>>
    /\ enqueued = <<>>
    /\ accepted = <<>>
    /\ discarded = {}
    /\ overflowed = FALSE
    /\ sends = <<>>
    /\ fails = <<>>

InitBuf ==
    /\ \E cap \in 1..MaxCapacity : \E hwm \in {NoMark, cap} :
          buf = BufferNew(cap, hwm)
    /\ lastOp = "init"
    /\ lastArgLen = 0
    /\ lastLen = 0
    /\ lastRet = Returned(0)
    /\ written = <<>>
    /\ fits = TRUE
    /\ NoHub
    /\ NoCompressor
    /\ NoDevice
    /\ NoMore

\* buf.write(*args). The record of what was written is kept while the total
\* fits the capacity.
Write(args) ==
    /\ LET r == BufWrite(buf, args)
       IN /\ buf' = r.buf
          /\ lastRet' = r.ret
    /\ lastOp' = "write"
    /\ lastArgLen' = Len(Concat(args))
    /\ lastLen' = BufLen(buf)
    /\ LET all == written \o Concat(args)
       IN IF fits /\ Len(all) <= capacity(buf)
          THEN written' = all /\ fits' = TRUE
          ELSE written' = <<>> /\ fits' = FALSE
    /\ UNCHANGED <<hubVars, histVars, otherVars>>

\* buf.clear()
Clear ==
    /\ LET r == BufClear(buf, BufferAttrs)
       IN /\ buf' = r.buf
          /\ lastRet' = r.ret
    /\ lastOp' = "clear"
    /\ lastArgLen' = 0
    /\ lastLen' = BufLen(buf)
    /\ IF "clear" \in BufferAttrs
       THEN written' = <<>> /\ fits' = TRUE
       ELSE UNCHANGED <<written, fits>>
    /\ UNCHANGED <<hubVars, histVars, otherVars>>

WriteArgs == SeqsOf(SeqsOf(Bytes, 0, MaxArgLen), 0, MaxArgs)

NextBuf ==
    \/ \E args \in WriteArgs : Write(args)
    \/ Clear

SpecBuf == InitBuf /\ [][NextBuf]_vars

-----------------------------------------------------------------------------
(* Properties of Buffer, checked under SpecBuf *)

\* C8: a write call whose arguments together do not fit the remaining
\* capacity raises BufferError and leaves len and data() as they were before
\* the call.
C8_WriteAllOrNothing ==
    [][(lastOp' = "write" /\ BufLen(buf) + lastArgLen' > capacity(buf))
         => (/\ lastRet'.exc = "BufferError"
             /\ BufLen(buf') = BufLen(buf)
             /\ data(buf') = data(buf))]_vars

\* C9: while the arguments of all write calls together fit the capacity,
\* data() is their concatenation in call and argument order, len is their
\* total length and the last write returned the number of bytes it added.
C9_DataIsConcatenation ==
    fits => /\ data(buf) = written
            /\ BufLen(buf) = Len(written)
            /\ (lastOp = "write" => lastRet = Returned(lastArgLen))

\* C9 witness: a later write call of several bytes has filled a buffer that
\* already held data, up to its capacity.
C9_Witness ==
    /\ fits
    /\ lastOp = "write"
    /\ lastLen > 0
    /\ lastArgLen > 1
    /\ BufLen(buf) = capacity(buf)

\* C10: after a clear() call len is 0 and data() is empty.
C10_ClearEmpties ==
    lastOp = "clear" => (BufLen(buf) = 0 /\ data(buf) = <<>>)

-----------------------------------------------------------------------------
(* vzclient/asyncio/influx_hub.py: class InfluxHub *)

\* most reader tasks connected to the hub
NReaders == 2
\* most reader tasks connected to the hub whose Buffer has a clear()
NReadersClear == 1
\* most writer tasks connected to the hub
NWriters == 2
\* most samples one reader's stream yields
MaxSamples == 2
\* largest timestamp a stream yields
MaxT == 2
\* longest encoded value f"{x} {t}\n" of a sample, in bytes
MaxValueLen == 2
\* most stop() calls made on one hub
MaxStops == 1
\* most retries of one writer when max_retries < 0 (retries without limit)
MaxRetry == 2

\* InfluxHub(buffer_size, max_buffer_age, max_retries): the arguments the hub
\* is constructed with
buffer_size == 4
max_buffer_age == 0
RetryChoices == {-1, 0, 1}

\* self._t_buffer = None
NoTime == 0
\* data = None in wrap_writer
NoData == <<>>

\* the timestamps and the lengths of the encoded values a stream yields
Times == 1..MaxT
ValueLens == 1..MaxValueLen

\* length of the record prefix InfluxDriver.get_prefix returns
PrefixLen == 1

\* the two arguments wrap_reader passes to Buffer.write for the k-th sample of
\* reader r: the prefix and the encoded value. Each byte carries the sample
\* it belongs to and its position in the record.
Prefix(r, k) == [i \in 1..PrefixLen |-> <<r, k, i>>]
Value(r, k, n) == [i \in 1..n |-> <<r, k, PrefixLen + i>>]

\* a task that has finished: returned, raised, or was cancelled
Finished == {"done", "failed", "cancelled"}

\* every task the hub was connected to has run its first step
Started ==
    /\ \A r \in DOMAIN readers : readers[r] # "new"
    /\ \A w \in DOMAIN writers : writers[w] # "new"

\* the attributes of Buffer with the clear() its callers expect
BufferAttrsWithClear == BufferAttrs \cup {"clear"}

\* InfluxHub.flush_buffer, after self._t_buffer = None: the buffer and the
\* queue it leaves and the exception raised, if any
flush_buffer(b, q, attrs) ==
    IF BufLen(b) > 0
    THEN LET c == BufClear(b, attrs)
         IN IF c.ret.exc # NoExc
            THEN [buf |-> b, queue |-> q, exc |-> c.ret.exc]
            ELSE [buf |-> c.buf, queue |-> Append(q, data(b)), exc |-> NoExc]
    ELSE [buf |-> b, queue |-> q, exc |-> NoExc]

\* the condition under which wrap_reader flushes after a write
NeedsFlush(b, t, tb) == is_full(b) \/ t - tb > max_buffer_age

\* the hub constructed with buffer_size = size and connected to at most
\* maxReaders readers and to one or more writers (as in Logger.main), none of
\* the tasks having run yet
HubNew(size, maxReaders) ==
    /\ buf = BufferNew(size, NoMark)
    /\ lastOp = "init"
    /\ lastArgLen = 0
    /\ lastLen = 0
    /\ lastRet = Returned(0)
    /\ written = <<>>
    /\ fits = TRUE
    /\ max_retries \in RetryChoices
    /\ t_buffer = NoTime
    /\ output_queue = <<>>
    /\ unfinished = 0
    /\ future = "pending"
    /\ \E nr \in 0..maxReaders :
          /\ readers = [r \in 1..nr |-> "new"]
          /\ reader_cancel = [r \in 1..nr |-> FALSE]
          /\ samples = [r \in 1..nr |-> 0]
    /\ \E nw \in 1..NWriters :
          /\ writers = [w \in 1..nw |-> "new"]
          /\ writer_cancel = [w \in 1..nw |-> FALSE]
          /\ batch = [w \in 1..nw |-> NoData]
          /\ retry = [w \in 1..nw |-> 0]
          /\ cancel = [w \in 1..nw |-> FALSE]
          /\ sends = [w \in 1..nw |-> 0]
          /\ fails = [w \in 1..nw |-> 0]
    /\ stop_pc = "idle"
    /\ errors = {}
    /\ stops = 0
    /\ appended = <<>>
    /\ enqueued = <<>>
    /\ accepted = <<>>
    /\ discarded = {}
    /\ overflowed = FALSE
    /\ NoCompressor
    /\ NoDevice
    /\ NoMore

InitHub(maxReaders) == HubNew(buffer_size, maxReaders)

writerVars == <<writers, writer_cancel, batch, retry, cancel, sends, fails>>
stopVars == <<stop_pc, errors, stops, future>>
sinkVars == <<accepted, discarded, unfinished>>
specBufVars == <<lastOp, lastArgLen, lastLen, lastRet, written, fits>>

(* wrap_reader *)

\* first step of a reader task: it runs up to the first wait on its stream,
\* or ends at once when it was cancelled before it ran
ReaderStart(r) ==
    /\ readers[r] = "new"
    /\ readers' = [readers EXCEPT ![r] =
                      IF reader_cancel[r] THEN "cancelled" ELSE "iter"]
    /\ reader_cancel' = [reader_cancel EXCEPT ![r] = FALSE]
    /\ UNCHANGED <<buf, t_buffer, output_queue, samples, max_retries,
                   appended, enqueued, overflowed,
                   writerVars, stopVars, sinkVars, specBufVars, otherVars>>

\* the stream yields (t, x), x encoded in n bytes: one pass of the loop body
LoopBody(r, t, n, attrs) ==
    /\ Started
    /\ readers[r] = "iter"
    /\ ~reader_cancel[r]
    /\ LET k == samples[r] + 1
           tb == IF t_buffer = NoTime THEN t ELSE t_buffer
           w == BufWrite(buf, <<Prefix(r, k), Value(r, k, n)>>)
           f == flush_buffer(w.buf, output_queue, attrs)
       IN /\ samples' = [samples EXCEPT ![r] = k]
          /\ IF w.ret.exc # NoExc
             THEN /\ overflowed' = TRUE
                  /\ UNCHANGED <<output_queue, appended, enqueued, unfinished>>
                  /\ readers' = [readers EXCEPT ![r] = "failed"]
                  /\ t_buffer' = tb
                  /\ buf' = w.buf
             ELSE /\ appended' = Append(appended, <<r, k, n>>)
                  /\ overflowed' = overflowed
                  /\ IF NeedsFlush(w.buf, t, tb)
                     THEN /\ buf' = f.buf
                          /\ t_buffer' = NoTime
                          /\ output_queue' = f.queue
                          /\ readers' = [readers EXCEPT ![r] =
                                IF f.exc # NoExc THEN "failed" ELSE "iter"]
                          /\ enqueued' = IF f.exc # NoExc THEN enqueued
                                         ELSE Append(enqueued, data(w.buf))
                          /\ unfinished' = IF f.exc # NoExc THEN unfinished
                                           ELSE unfinished + 1
                     ELSE /\ buf' = w.buf
                          /\ t_buffer' = tb
                          /\ UNCHANGED <<output_queue, readers, enqueued,
                                         unfinished>>
    /\ UNCHANGED <<reader_cancel, max_retries, accepted, discarded,
                   writerVars, stopVars, specBufVars, otherVars>>

\* a stream yields at most MaxSamples samples
ReaderSample(r, t, n, attrs) ==
    /\ samples[r] < MaxSamples
    /\ LoopBody(r, t, n, attrs)

\* the stream ends on its own: "reader died unexpectedly", no flush
ReaderEnd(r) ==
    /\ Started
    /\ readers[r] = "iter"
    /\ ~reader_cancel[r]
    /\ readers' = [readers EXCEPT ![r] = "done"]
    /\ UNCHANGED <<buf, t_buffer, output_queue, samples, reader_cancel,
                   max_retries, appended, enqueued, overflowed,
                   writerVars, stopVars, sinkVars, specBufVars, otherVars>>

\* the stream raises a sampling error: the task ends with it
ReaderError(r) ==
    /\ Started
    /\ readers[r] = "iter"
    /\ ~reader_cancel[r]
    /\ readers' = [readers EXCEPT ![r] = "failed"]
    /\ UNCHANGED <<buf, t_buffer, output_queue, samples, reader_cancel,
                   max_retries, appended, enqueued, overflowed,
                   writerVars, stopVars, sinkVars, specBufVars, otherVars>>

\* the cancellation is delivered while the task waits on its stream:
\* except asyncio.CancelledError: self.flush_buffer()
ReaderCancelled(r, attrs) ==
    /\ Started
    /\ readers[r] = "iter"
    /\ reader_cancel[r]
    /\ LET f == flush_buffer(buf, output_queue, attrs)
       IN /\ buf' = f.buf
          /\ t_buffer' = NoTime
          /\ output_queue' = f.queue
          /\ readers' = [readers EXCEPT ![r] =
                            IF f.exc # NoExc THEN "failed" ELSE "done"]
          /\ enqueued' = IF f.exc # NoExc \/ BufLen(buf) = 0 THEN enqueued
                         ELSE Append(enqueued, data(buf))
          /\ unfinished' = IF f.exc # NoExc \/ BufLen(buf) = 0 THEN unfinished
                           ELSE unfinished + 1
    /\ reader_cancel' = [reader_cancel EXCEPT ![r] = FALSE]
    /\ UNCHANGED <<samples, max_retries, appended, overflowed, accepted,
                   discarded, writerVars, stopVars, specBufVars, otherVars>>

(* stop *)

\* for task in tasks: task.cancel(). A finished task ignores the request.
CancelAll(tasks, requested) ==
    [i \in DOMAIN tasks |-> requested[i] \/ tasks[i] \notin Finished]

\* the tasks asyncio.wait returns as pending
Pending(tasks) == {i \in DOMAIN tasks : tasks[i] \notin Finished}

\* for task in done: await task. A task that raised is logged; a cancelled
\* task raises CancelledError, which except Exception does not catch.
AwaitRaises(tasks) == \E i \in DOMAIN tasks : tasks[i] = "cancelled"

\* stop() is called and runs up to its first wait: the reader tasks are
\* cancelled; asyncio.wait raises ValueError for an empty list of tasks
StopCallUpTo(max) ==
    /\ stop_pc \in {"idle", "done", "raised"}
    /\ stops < max
    /\ stops' = stops + 1
    /\ errors' = {}
    /\ reader_cancel' = CancelAll(readers, reader_cancel)
    /\ stop_pc' = IF DOMAIN readers = {} THEN "raised" ELSE "readers"
    /\ UNCHANGED <<buf, t_buffer, output_queue, samples, readers, max_retries,
                   future, appended, enqueued, overflowed,
                   writerVars, sinkVars, specBufVars, otherVars>>

\* stop() is called, MaxStops times at most
StopCall == StopCallUpTo(MaxStops)

\* asyncio.wait on the readers is over with the tasks in pending unfinished;
\* stop() runs on to its wait on the writers
StopReaders(pending) ==
    /\ stop_pc = "readers"
    /\ IF AwaitRaises(readers)
       THEN /\ stop_pc' = "raised"
            /\ UNCHANGED <<errors, writer_cancel>>
       ELSE /\ stop_pc' = "writers"
            /\ errors' = IF pending # {} THEN errors \cup {"readers"} ELSE errors
            /\ writer_cancel' = CancelAll(writers, writer_cancel)
    /\ UNCHANGED <<buf, t_buffer, output_queue, samples, readers,
                   reader_cancel, max_retries, stops, future, appended,
                   enqueued, overflowed, writers, batch, retry, cancel, sends,
                   fails, sinkVars, specBufVars, otherVars>>

\* every reader task has finished
StopReadersDone ==
    /\ Pending(readers) = {}
    /\ StopReaders({})

\* the reader timeout elapsed with some reader task unfinished
StopReadersTimeout ==
    /\ Started
    /\ Pending(readers) # {}
    /\ StopReaders(Pending(readers))

\* asyncio.wait on the writers is over with the tasks in pending unfinished;
\* stop() runs to its end and settles the hub's future
StopWriters(pending) ==
    /\ stop_pc = "writers"
    /\ LET errs == IF pending # {} THEN errors \cup {"writers"} ELSE errors
       IN IF AwaitRaises(writers)
          THEN /\ stop_pc' = "raised"
               /\ UNCHANGED <<errors, future>>
          ELSE /\ errors' = errs
               /\ IF future = "pending"
                  THEN /\ future' = IF errs # {} THEN "exception" ELSE "result"
                       /\ stop_pc' = "done"
                  ELSE /\ future' = future
                       /\ stop_pc' = "raised"
    /\ UNCHANGED <<buf, t_buffer, output_queue, samples, readers,
                   reader_cancel, max_retries, stops, appended, enqueued,
                   overflowed, writerVars, sinkVars, specBufVars, otherVars>>

\* every writer task has finished
StopWritersDone ==
    /\ Pending(writers) = {}
    /\ StopWriters({})

\* the writer timeout elapsed with some writer task unfinished
StopWritersTimeout ==
    /\ Started
    /\ Pending(writers) # {}
    /\ StopWriters(Pending(writers))

(* wrap_writer *)

\* (mutant) queue.get() returns the newest batch
LoopTakesLast(c, d, rt, q) ==
    IF c /\ q = <<>> /\ d = NoData
    THEN [pc |-> "done", data |-> d, retry |-> rt, queue |-> q]
    ELSE IF d = NoData
         THEN IF q = <<>>
              THEN [pc |-> "get", data |-> d, retry |-> 0, queue |-> q]
              ELSE [pc |-> "connect", data |-> q[Len(q)], retry |-> 0,
                    queue |-> SubSeq(q, 1, Len(q) - 1)]
         ELSE [pc |-> "connect", data |-> d, retry |-> rt, queue |-> q]

\* one evaluation of the while condition and the code up to the next wait,
\* with the locals cancel = c, data = d, retry = rt and the queue q: the task
\* returns, waits in queue.get(), or starts an attempt on a batch
Loop(c, d, rt, q) ==
    IF c /\ q = <<>> /\ d = NoData
    THEN [pc |-> "done", data |-> d, retry |-> rt, queue |-> q]
    ELSE IF d = NoData
         THEN IF q = <<>>
              THEN [pc |-> "get", data |-> d, retry |-> 0, queue |-> q]
              ELSE [pc |-> "connect", data |-> Head(q), retry |-> 0,
                    queue |-> Tail(q)]
         ELSE [pc |-> "connect", data |-> d, retry |-> rt, queue |-> q]

\* writer w goes on from the top of the loop with its locals c, d, rt; nf is
\* the number of failed attempts on d so far
Resume(w, c, d, rt, nf) ==
    LET n == Loop(c, d, rt, output_queue)
    IN /\ writers' = [writers EXCEPT ![w] = n.pc]
       /\ batch' = [batch EXCEPT ![w] = n.data]
       /\ retry' = [retry EXCEPT ![w] = n.retry]
       /\ cancel' = [cancel EXCEPT ![w] = c]
       /\ output_queue' = n.queue
       /\ sends' = [sends EXCEPT ![w] = IF d = NoData THEN 0 ELSE @]
       /\ fails' = [fails EXCEPT ![w] = IF d = NoData THEN 0 ELSE nf]

\* (mutant) the test allows one retry more
MayRetryOnceMore(rt) == max_retries < 0 \/ rt <= max_retries

\* the test of the except Exception branch
MayRetry(rt) == max_retries < 0 \/ rt < max_retries

\* the except Exception branch of wrap_writer, up to the next wait: retry
\* after a sleep, or give the batch up. len(data) raises TypeError when the
\* batch was already sent and data is None. nf is the number of failed
\* attempts on the batch in hand, this one included.
Handle(w, nf) ==
    IF MayRetry(retry[w])
    THEN /\ writers' = [writers EXCEPT ![w] = "sleep"]
         /\ retry' = [retry EXCEPT ![w] = @ + 1]
         /\ fails' = [fails EXCEPT ![w] = IF batch[w] = NoData THEN 0 ELSE nf]
         /\ UNCHANGED <<batch, cancel, output_queue, sends, discarded,
                        unfinished>>
    ELSE IF batch[w] = NoData
         THEN /\ writers' = [writers EXCEPT ![w] = "failed"]
              /\ UNCHANGED <<batch, retry, cancel, output_queue, sends, fails,
                             discarded, unfinished>>
         ELSE /\ discarded' = discarded \cup
                     {[batch |-> batch[w], fails |-> nf,
                       sends |-> sends[w]]}
              /\ unfinished' = unfinished - 1
              /\ Resume(w, cancel[w], NoData, retry[w], 0)

\* what no step of a writer task changes
WriterFrame ==
    UNCHANGED <<buf, t_buffer, samples, readers, reader_cancel, max_retries,
                appended, enqueued, overflowed, stopVars, specBufVars, otherVars>>

\* first step of a writer task: it runs up to its first wait, or ends at
\* once when it was cancelled before it ran
WriterStart(w) ==
    /\ writers[w] = "new"
    /\ IF writer_cancel[w]
       THEN /\ writers' = [writers EXCEPT ![w] = "cancelled"]
            /\ UNCHANGED <<batch, retry, cancel, output_queue, sends, fails>>
       ELSE Resume(w, FALSE, NoData, 0, 0)
    /\ writer_cancel' = [writer_cancel EXCEPT ![w] = FALSE]
    /\ UNCHANGED sinkVars
    /\ WriterFrame

\* queue.get() returns the oldest batch
WriterGet(w) ==
    /\ Started
    /\ writers[w] = "get"
    /\ ~writer_cancel[w]
    /\ output_queue # <<>>
    /\ Resume(w, cancel[w], NoData, retry[w], 0)
    /\ UNCHANGED <<writer_cancel, sinkVars>>
    /\ WriterFrame

\* the cancellation is delivered at the wait of writer w. While insert is
\* awaited the CancelledError first passes the driver's __aexit__, which
\* awaits the disconnect; at every other wait it reaches the outer handler,
\* which sets cancel.
WriterCancelled(w) ==
    /\ Started
    /\ writers[w] \in {"get", "connect", "insert", "close_ok", "close_error",
                       "close_cancel", "sleep"}
    /\ writer_cancel[w]
    /\ writer_cancel' = [writer_cancel EXCEPT ![w] = FALSE]
    /\ IF writers[w] = "insert"
       THEN /\ writers' = [writers EXCEPT ![w] = "close_cancel"]
            /\ UNCHANGED <<batch, retry, cancel, output_queue, sends, fails>>
       ELSE Resume(w, TRUE, batch[w], retry[w], fails[w])
    /\ UNCHANGED sinkVars
    /\ WriterFrame

\* the driver's __aenter__ connects: insert is called
WriterConnectOk(w) ==
    /\ Started
    /\ writers[w] = "connect"
    /\ ~writer_cancel[w]
    /\ writers' = [writers EXCEPT ![w] = "insert"]
    /\ sends' = [sends EXCEPT ![w] = @ + 1]
    /\ UNCHANGED <<writer_cancel, batch, retry, cancel, output_queue, fails,
                   sinkVars>>
    /\ WriterFrame

\* a sink error may be raised: retries without limit are cut at MaxRetry
SinkMayFail(w) == max_retries >= 0 \/ retry[w] < MaxRetry

\* the driver's __aenter__ raises
WriterConnectError(w) ==
    /\ Started
    /\ writers[w] = "connect"
    /\ ~writer_cancel[w]
    /\ SinkMayFail(w)
    /\ Handle(w, fails[w] + 1)
    /\ UNCHANGED <<writer_cancel, accepted>>
    /\ WriterFrame

\* insert returns: data = None, task_done(); __aexit__ awaits the disconnect
WriterInsertOk(w) ==
    /\ Started
    /\ writers[w] = "insert"
    /\ ~writer_cancel[w]
    /\ writers' = [writers EXCEPT ![w] = "close_ok"]
    /\ accepted' = Append(accepted, batch[w])
    /\ batch' = [batch EXCEPT ![w] = NoData]
    /\ unfinished' = unfinished - 1
    /\ UNCHANGED <<writer_cancel, retry, cancel, output_queue, sends, fails,
                   discarded>>
    /\ WriterFrame

\* insert raises: __aexit__ awaits the disconnect
WriterInsertError(w) ==
    /\ Started
    /\ writers[w] = "insert"
    /\ ~writer_cancel[w]
    /\ SinkMayFail(w)
    /\ writers' = [writers EXCEPT ![w] = "close_error"]
    /\ fails' = [fails EXCEPT ![w] = @ + 1]
    /\ UNCHANGED <<writer_cancel, batch, retry, cancel, output_queue, sends,
                   sinkVars>>
    /\ WriterFrame

\* the disconnect in __aexit__ returns: the block is left normally, or with
\* the exception that was passing through it
WriterCloseOk(w) ==
    /\ Started
    /\ writers[w] \in {"close_ok", "close_error", "close_cancel"}
    /\ ~writer_cancel[w]
    /\ CASE writers[w] = "close_ok" ->
               /\ Resume(w, cancel[w], batch[w], retry[w], fails[w])
               /\ UNCHANGED <<discarded, unfinished>>
         [] writers[w] = "close_error" -> Handle(w, fails[w])
         [] writers[w] = "close_cancel" ->
               /\ Resume(w, TRUE, batch[w], retry[w], fails[w])
               /\ UNCHANGED <<discarded, unfinished>>
    /\ UNCHANGED <<writer_cancel, accepted>>
    /\ WriterFrame

\* the disconnect in __aexit__ raises: its exception replaces the one that
\* was passing through the block, a CancelledError included
WriterCloseError(w) ==
    /\ Started
    /\ writers[w] \in {"close_ok", "close_error", "close_cancel"}
    /\ ~writer_cancel[w]
    /\ SinkMayFail(w)
    /\ Handle(w, IF writers[w] = "close_error" THEN fails[w] ELSE fails[w] + 1)
    /\ UNCHANGED <<writer_cancel, accepted>>
    /\ WriterFrame

\* asyncio.sleep(2) returns
WriterWake(w) ==
    /\ Started
    /\ writers[w] = "sleep"
    /\ ~writer_cancel[w]
    /\ Resume(w, cancel[w], batch[w], retry[w], fails[w])
    /\ UNCHANGED <<writer_cancel, sinkVars>>
    /\ WriterFrame

(* Specifications of the hub *)

\* the hub with the Buffer of vzclient/buffer.py. No batch is ever put on
\* the queue (flush_buffer raises at self._buffer.clear()), so a writer task
\* only ever starts, waits in queue.get() and is cancelled there: the other
\* steps of wrap_writer are never enabled.
Next ==
    \/ \E r \in DOMAIN readers : ReaderStart(r)
    \/ \E r \in DOMAIN readers : \E t \in Times : \E n \in ValueLens :
          ReaderSample(r, t, n, BufferAttrs)
    \/ \E r \in DOMAIN readers : ReaderEnd(r)
    \/ \E r \in DOMAIN readers : ReaderError(r)
    \/ \E r \in DOMAIN readers : ReaderCancelled(r, BufferAttrs)
    \/ \E w \in DOMAIN writers : WriterStart(w)
    \/ \E w \in DOMAIN writers : WriterCancelled(w)
    \/ StopCall
    \/ StopReadersDone
    \/ StopReadersTimeout
    \/ StopWritersDone
    \/ StopWritersTimeout

Spec == InitHub(NReaders) /\ [][Next]_vars

\* the hub with a Buffer whose clear() empties it
NextClear ==
    \/ \E r \in DOMAIN readers : ReaderStart(r)
    \/ \E r \in DOMAIN readers : \E t \in Times : \E n \in ValueLens :
          ReaderSample(r, t, n, BufferAttrsWithClear)
    \/ \E r \in DOMAIN readers : ReaderEnd(r)
    \/ \E r \in DOMAIN readers : ReaderError(r)
    \/ \E r \in DOMAIN readers : ReaderCancelled(r, BufferAttrsWithClear)
    \/ \E w \in DOMAIN writers : WriterStart(w)
    \/ \E w \in DOMAIN writers : WriterGet(w)
    \/ \E w \in DOMAIN writers : WriterCancelled(w)
    \/ \E w \in DOMAIN writers : WriterConnectOk(w)
    \/ \E w \in DOMAIN writers : WriterConnectError(w)
    \/ \E w \in DOMAIN writers : WriterInsertOk(w)
    \/ \E w \in DOMAIN writers : WriterInsertError(w)
    \/ \E w \in DOMAIN writers : WriterCloseOk(w)
    \/ \E w \in DOMAIN writers : WriterCloseError(w)
    \/ \E w \in DOMAIN writers : WriterWake(w)
    \/ StopCall
    \/ StopReadersDone
    \/ StopReadersTimeout
    \/ StopWritersDone
    \/ StopWritersTimeout

SpecClear == InitHub(NReadersClear) /\ [][NextClear]_vars

TaskStates ==
    {"new", "iter", "get", "connect", "insert", "close_ok", "close_error",
     "close_cancel", "sleep"} \cup Finished

TypeOK ==
    /\ max_retries \in RetryChoices
    /\ t_buffer \in {NoTime} \cup Times
    /\ unfinished \in Nat
    /\ unfinished = Len(enqueued) - Len(accepted) - Cardinality(discarded)
    /\ future \in {"pending", "result", "exception"}
    /\ \A r \in DOMAIN readers : readers[r] \in TaskStates
    /\ \A w \in DOMAIN writers :
          /\ writers[w] \in TaskStates
          /\ retry[w] \in 0..(IF max_retries < 0 THEN MaxRetry ELSE max_retries)
    /\ stop_pc \in {"idle", "readers", "writers", "done", "raised"}
    /\ errors \subseteq {"readers", "writers"}
    /\ BufLen(buf) <= capacity(buf)

-----------------------------------------------------------------------------
(* Properties of the hub *)

\* the record of the appended sample s = <<r, k, n>> is in a batch that was
\* put on the output queue
Enqueued(s) ==
    \E i \in DOMAIN enqueued :
       \E j \in DOMAIN enqueued[i] :
          \A m \in 1..(PrefixLen + s[3]) :
             /\ j + m - 1 <= Len(enqueued[i])
             /\ enqueued[i][j + m - 1] = <<s[1], s[2], m>>

\* the batch b was accepted by the sink, or given up
Handled(b) ==
    \/ \E i \in DOMAIN accepted : accepted[i] = b
    \/ \E d \in discarded : d.batch = b

AllFinished(tasks) == \A i \in DOMAIN tasks : tasks[i] \in Finished

\* C1: once stop() was called and every reader task has finished (from then
\* on nothing is put on the queue), every sample appended to the buffer is
\* in a batch that was put on the output queue, unless a write overflowed.
C1_SamplesReachQueue ==
    (stops > 0 /\ ~overflowed /\ AllFinished(readers))
        => \A i \in DOMAIN appended : Enqueued(appended[i])

\* C2: with max_retries >= 0, once stop() was called, no reader outlived
\* the reader timeout and every writer task has exited, every batch ever put
\* on the output queue was accepted by the sink or discarded.
C2_ShutdownDrains ==
    (/\ stops > 0
     /\ max_retries >= 0
     /\ "readers" \notin errors
     /\ AllFinished(writers))
        => \A i \in DOMAIN enqueued : Handled(enqueued[i])

\* what C3 states apart from the bound on the sends: a batch is discarded
\* only after max_retries + 1 failed attempts, never with max_retries < 0,
\* and the retry counter does not carry over to a new batch
C3_Discards ==
    /\ \A d \in discarded : max_retries >= 0 /\ d.fails >= max_retries + 1
    /\ \A w \in DOMAIN writers : batch[w] # NoData => retry[w] <= fails[w]

C4_StopAfterDrain ==
    [][\A w \in DOMAIN writers :
          /\ (writers[w] \notin Finished /\ writers'[w] \in Finished)
                => (output_queue' = <<>> /\ batch'[w] = NoData)
          /\ ((writer_cancel[w] \/ writers[w] = "close_cancel")
                /\ batch[w] # NoData)
                => batch'[w] = batch[w]]_vars

\* C5: stop() requests the cancellation of a writer only when every reader
\* task has finished or the reader timeout has elapsed, and a reader task
\* that ends on its cancellation leaves the buffer empty, its content put on
\* the output queue as one batch.
C5_ShutdownOrdering ==
    [][/\ (\E w \in DOMAIN writers : writer_cancel'[w] /\ ~writer_cancel[w])
            => (AllFinished(readers) \/ "readers" \in errors')
       /\ \A r \in DOMAIN readers :
             (reader_cancel[r] /\ readers[r] = "iter" /\ readers'[r] \in Finished)
                => /\ BufLen(buf') = 0
                   /\ BufLen(buf) > 0 =>
                         output_queue' = Append(output_queue, data(buf))]_vars

\* C6: a writer task finishes only on a cancellation (never on a sink
\* error), and the step in which a reader's stream raises a sampling error
\* changes the state of no other task.
C6_FaultIsolation ==
    [][/\ \A w \in DOMAIN writers :
             (writers[w] \notin Finished /\ writers'[w] \in Finished)
                => (writers'[w] = "cancelled" \/ (writers'[w] = "done" /\ cancel'[w]))
       /\ \A r \in DOMAIN readers :
             (/\ readers[r] = "iter" /\ ~reader_cancel[r]
              /\ readers'[r] = "failed" /\ samples' = samples)
                => /\ writers' = writers
                   /\ \A o \in DOMAIN readers \ {r} : readers'[o] = readers[o]]_vars

\* the bytes of the accepted batches, in the order of their acceptance
Sunk == Concat(accepted)

-----------------------------------------------------------------------------
(* Compressor (vzclient/compress.py) *)

\* largest x of an input sample
MaxX == 4
\* number of different y values of the input samples
MaxY == 2
\* longest input sequence
MaxInput == 4
\* largest max_gap a Compressor is constructed with
MaxGap == 3

\* Python's None, for max_gap and for the samples not yet seen
None == 0

\* the (x, y) pairs an iterable may hold
Samples == (1..MaxX) \X (1..MaxY)

\* Compressor(max_gap): x0 and y0 default to None
CompressorNew(gap) ==
    [max_gap |-> gap, x0 |-> None, y0 |-> None, xn |-> None, yn |-> None]

\* Compressor.iter with a first sample (x, y) in the iterable
iter(c, x, y) == [c EXCEPT !.x0 = x, !.y0 = y, !.xn = x, !.yn = y]

\* both ends of the current constant phase, whether they differ or not
ClosePhaseBoth(c) == << <<c.x0, c.y0>>, <<c.xn, c.yn>> >>

\* the samples that close the current constant phase: (x0, y0), and
\* (xn, yn) when the phase has more than one node
ClosePhase(c) ==
    << <<c.x0, c.y0>> >> \o
        (IF c.xn # c.x0 THEN << <<c.xn, c.yn>> >> ELSE <<>>)

\* finalize() without its second yield
FinalizeAnchorOnly(c) == << <<c.x0, c.y0>> >>

\* Compressor.finalize: the samples it yields
finalize(c) == ClosePhase(c)

\* the gap test of compress without the test for an unset max_gap
GapExceededUnsetAsZero(c, x) == x - c.x0 > c.max_gap

\* the gap test of compress measuring from the last sample for the anchor
GapFromLast(c, x) == c.max_gap # None /\ x - c.xn > c.max_gap

\* the gap test of compress
GapExceeded(c, x) == c.max_gap # None /\ x - c.x0 > c.max_gap

\* compress without the yield of (xn, yn) at a change of value
CompressAnchorOnly(c, x, y) ==
    IF x = c.xn
    THEN [c |-> c, out |-> <<>>]
    ELSE IF y = c.yn
    THEN IF GapExceeded(c, x)
         THEN [c |-> [c EXCEPT !.x0 = c.xn, !.y0 = c.yn, !.xn = x],
               out |-> << <<c.x0, c.y0>> >>]
         ELSE [c |-> [c EXCEPT !.xn = x], out |-> <<>>]
    ELSE [c |-> iter(c, x, y), out |-> << <<c.x0, c.y0>> >>]

\* one pass of the loop of Compressor.compress, for the sample (x, y): the
\* object after the pass and the samples yielded in it
compress(c, x, y) ==
    IF x = c.xn
    THEN [c |-> c, out |-> <<>>]
    ELSE IF y = c.yn
    THEN IF GapExceeded(c, x)
         THEN [c |-> [c EXCEPT !.x0 = c.xn, !.y0 = c.yn, !.xn = x],
               out |-> << <<c.x0, c.y0>> >>]
         ELSE [c |-> [c EXCEPT !.xn = x], out |-> <<>>]
    ELSE [c |-> [c EXCEPT !.x0 = x, !.y0 = y, !.xn = x, !.yn = y],
          out |-> ClosePhase(c)]

\* no Buffer is constructed in the Compressor specification
NoBuffer ==
    /\ buf = <<>>
    /\ lastOp = "none"
    /\ lastArgLen = 0
    /\ lastLen = 0
    /\ lastRet = NoExc
    /\ written = <<>>
    /\ fits = TRUE

\* a Compressor constructed with any max_gap and called with an iterable
InitComp ==
    /\ \E gap \in {None} \cup 1..MaxGap : compressor = CompressorNew(gap)
    /\ chunk = <<>>
    /\ yielded = <<>>
    /\ comp_pc = "iter"
    /\ NoBuffer
    /\ NoHub
    /\ NoDevice
    /\ NoMore

compFrame == <<bufVars, hubVars, histVars, devVars, moreVars>>

\* __call__ on an empty iterable: iter raises StopIteration, nothing is yielded
CallEmpty ==
    /\ comp_pc = "iter"
    /\ comp_pc' = "done"
    /\ UNCHANGED <<compressor, chunk, yielded, compFrame>>

\* __call__: iter takes the first sample
CallIter(x, y) ==
    /\ comp_pc = "iter"
    /\ compressor' = iter(compressor, x, y)
    /\ chunk' = << <<x, y>> >>
    /\ comp_pc' = "compress"
    /\ UNCHANGED <<yielded, compFrame>>

\* __call__: compress takes the next sample
CallCompress(x, y) ==
    /\ comp_pc = "compress"
    /\ Len(chunk) < MaxInput
    /\ LET r == compress(compressor, x, y)
       IN /\ compressor' = r.c
          /\ yielded' = yielded \o r.out
    /\ chunk' = Append(chunk, <<x, y>>)
    /\ UNCHANGED <<comp_pc, compFrame>>

\* __call__: the iterable is exhausted, finalize yields the open phase
CallFinalize ==
    /\ comp_pc = "compress"
    /\ yielded' = yielded \o finalize(compressor)
    /\ comp_pc' = "done"
    /\ UNCHANGED <<compressor, chunk, compFrame>>

NextComp ==
    \/ CallEmpty
    \/ \E s \in Samples : CallIter(s[1], s[2])
    \/ \E s \in Samples : CallCompress(s[1], s[2])
    \/ CallFinalize

SpecComp == InitComp /\ [][NextComp]_vars

(* properties of the Compressor *)

RECURSIVE IsSubSequence(_, _)
\* o can be had from s by leaving samples out
IsSubSequence(o, s) ==
    IF o = <<>> THEN TRUE
    ELSE IF s = <<>> THEN FALSE
    ELSE IF Head(o) = Head(s) THEN IsSubSequence(Tail(o), Tail(s))
    ELSE IsSubSequence(o, Tail(s))

XNonDecreasing(s) == \A i \in 1..(Len(s) - 1) : s[i][1] <= s[i + 1][1]
XIncreasing(s) == \A i \in 1..(Len(s) - 1) : s[i][1] < s[i + 1][1]

Last(s) == s[Len(s)]

\* the call has returned: chunk is the whole input S, yielded the output O
Done == comp_pc = "done"

\* C11: with max_gap unset and a non-empty input with non-decreasing x, the
\* output is a sub-sequence of the input, begins with the first input sample
\* and ends with the last input sample.
C11_SubSequenceFirstLast ==
    (Done /\ compressor.max_gap = None /\ chunk # <<>> /\ XNonDecreasing(chunk))
        => /\ IsSubSequence(yielded, chunk)
           /\ yielded # <<>>
           /\ Head(yielded) = Head(chunk)
           /\ Last(yielded) = Last(chunk)

\* the first sample of s that has the x of the last sample of s
FirstWithLastX(s) ==
    s[CHOOSE i \in 1..Len(s) :
         /\ s[i][1] = Last(s)[1]
         /\ \A j \in 1..(i - 1) : s[j][1] # Last(s)[1]]

\* C11 amended: with max_gap unset and a non-empty input with non-decreasing
\* x, the output is a sub-sequence of the input, begins with the first input
\* sample and ends with the first input sample that has the last x; that is
\* the last input sample when the last x is not repeated.
C11_SubSequenceFirstLastAmended ==
    (Done /\ compressor.max_gap = None /\ chunk # <<>> /\ XNonDecreasing(chunk))
        => /\ IsSubSequence(yielded, chunk)
           /\ yielded # <<>>
           /\ Head(yielded) = Head(chunk)
           /\ Last(yielded) = FirstWithLastX(chunk)
           /\ (\A i \in 1..(Len(chunk) - 1) : chunk[i][1] # Last(chunk)[1])
                 => Last(yielded) = Last(chunk)

\* C11 witness: an input of three samples with a repeated x in the middle and
\* a change of value was compressed without max_gap, and its last sample is
\* the last of the output.
C11_Witness ==
    /\ Done
    /\ compressor.max_gap = None
    /\ Len(chunk) = 3
    /\ XNonDecreasing(chunk)
    /\ chunk[1][1] = chunk[2][1]
    /\ chunk[2][1] < chunk[3][1]
    /\ chunk[1][2] # chunk[3][2]
    /\ Last(yielded) = Last(chunk)
    /\ Len(yielded) = 2

\* the samples a and b are neighbours in o, a first
Adjacent(o, a, b) == \E j \in 1..(Len(o) - 1) : o[j] = a /\ o[j + 1] = b

\* C12: for an input with strictly increasing x and any max_gap, two adjacent
\* input samples with different y are both in the output, next to each other.
C12_TransitionsKept ==
    (Done /\ XIncreasing(chunk))
        => \A i \in 1..(Len(chunk) - 1) :
              chunk[i][2] # chunk[i + 1][2]
                 => Adjacent(yielded, chunk[i], chunk[i + 1])

\* C12 witness: in an input of four samples with strictly increasing x the
\* value changes after a constant phase of three, the middle sample of the
\* phase was left out, and the two samples of the change are neighbours in
\* the output.
C12_Witness ==
    /\ Done
    /\ Len(chunk) = 4
    /\ XIncreasing(chunk)
    /\ chunk[1][2] = chunk[2][2]
    /\ chunk[2][2] = chunk[3][2]
    /\ chunk[3][2] # chunk[4][2]
    /\ yielded = <<chunk[1], chunk[3], chunk[4]>>

\* C13: with max_gap unset, no two consecutive output points have equal y.
C13_NoEqualNeighbours ==
    (Done /\ compressor.max_gap = None)
        => \A j \in 1..(Len(yielded) - 1) : yielded[j][2] # yielded[j + 1][2]

\* C13 amended: with max_gap unset, no three consecutive output points have
\* equal y, and two consecutive output points with equal y differ in x.
C13_NoEqualNeighboursAmended ==
    (Done /\ compressor.max_gap = None)
        => /\ \A j \in 1..(Len(yielded) - 2) :
                 ~(/\ yielded[j][2] = yielded[j + 1][2]
                   /\ yielded[j + 1][2] = yielded[j + 2][2])
           /\ \A j \in 1..(Len(yielded) - 1) :
                 yielded[j][2] = yielded[j + 1][2]
                    => yielded[j][1] # yielded[j + 1][1]

\* C13 witness: without max_gap an input of four samples, three of one value
\* and then one of another, gave three output points, the first two of
\* equal y.
C13_Witness ==
    /\ Done
    /\ compressor.max_gap = None
    /\ Len(chunk) = 4
    /\ Len(yielded) = 3
    /\ yielded[1][2] = yielded[2][2]
    /\ yielded[2][2] # yielded[3][2]

\* no two neighbours of o with equal y are more than gap apart in x
GapsWithin(o, gap) ==
    \A j \in 1..(Len(o) - 1) :
        o[j][2] = o[j + 1][2] => o[j + 1][1] - o[j][1] <= gap

\* C14: with max_gap = G set and strictly increasing x, no two consecutive
\* output points with equal y are more than G apart in x.
C14_GapBound ==
    (Done /\ compressor.max_gap # None /\ XIncreasing(chunk))
        => GapsWithin(yielded, compressor.max_gap)

\* C14 amended: with max_gap = G set, strictly increasing x and no two
\* adjacent input samples more than G apart in x, no two consecutive output
\* points with equal y are more than G apart in x.
C14_GapBoundAmended ==
    (/\ Done
     /\ compressor.max_gap # None
     /\ XIncreasing(chunk)
     /\ \A i \in 1..(Len(chunk) - 1) :
           chunk[i + 1][1] - chunk[i][1] <= compressor.max_gap)
        => GapsWithin(yielded, compressor.max_gap)

\* C14 witness: with max_gap = 2 a constant phase of four samples one apart
\* in x was compressed to its first, third and fourth sample.
C14_Witness ==
    /\ Done
    /\ compressor.max_gap = 2
    /\ Len(chunk) = 4
    /\ XIncreasing(chunk)
    /\ \A i \in 1..3 : chunk[i][2] = chunk[i + 1][2]
    /\ yielded = <<chunk[1], chunk[3], chunk[4]>>

\* all samples of s have the same y
Constant(s) == \A i, j \in DOMAIN s : s[i][2] = s[j][2]

\* C15: with max_gap unset, an empty input gives an empty output; a single
\* input sample is yielded by finalize and nothing is yielded before; an
\* input of two or more samples of one y and strictly increasing x gives
\* exactly its first and its last sample.
C15_EdgeCases ==
    compressor.max_gap = None
        => /\ (Done /\ chunk = <<>>) => yielded = <<>>
           /\ (~Done /\ Len(chunk) <= 1) => yielded = <<>>
           /\ (Done /\ Len(chunk) = 1) => yielded = chunk
           /\ (Done /\ Len(chunk) >= 2 /\ Constant(chunk) /\ XIncreasing(chunk))
                 => yielded = <<Head(chunk), Last(chunk)>>

\* C15 witness: without max_gap an input of three samples of one y and
\* strictly increasing x was compressed to two samples.
C15_Witness ==
    /\ Done
    /\ compressor.max_gap = None
    /\ Len(chunk) = 3
    /\ Constant(chunk)
    /\ XIncreasing(chunk)
    /\ Len(yielded) = 2

-----------------------------------------------------------------------------
(* DeviceReader (vzclient/asyncio/device_reader.py) *)

\* largest raw timestamp of a reading in SpecDev
MaxTime == 3
\* largest value of a reading in SpecDev
MaxValue == 2
\* largest sampling_interval in SpecDev
MaxInterval == 3
\* largest allowed_errors a reader is constructed with
MaxErrors == 2
\* most calls of read_device in SpecDev
MaxReads == 3
\* largest raw timestamp, value and sampling_interval in SpecInterp
MaxTimeInterp == 9
MaxValueInterp == 3
MaxIntervalInterp == 5
\* most calls of read_device in SpecInterp: two readings give one emission
MaxReadsInterp == 2

\* bits of the significand of a float. Python's float has 53; the binary
\* expansions of the weights repeat with a period of a few bits, and 5 bits
\* round 1/5 in the direction 53 bits do.
MantissaBits == 5

(* float arithmetic: a float is <<n, d>>, the number n/d, with d a power of *)
(* two and n odd unless d = 1. Every operation rounds its exact result to  *)
(* the nearest float, ties to the even significand.                        *)

RECURSIVE Lowest(_, _)
\* n/d in lowest terms, for d a power of two
Lowest(n, d) ==
    IF d > 1 /\ n % 2 = 0 THEN Lowest(n \div 2, d \div 2) ELSE <<n, d>>

RECURSIVE Exponent(_, _)
\* the e with 2^(MantissaBits-1) <= (n/d) * 2^e < 2^MantissaBits, for n, d > 0
Exponent(n, d) ==
    IF n < 2^(MantissaBits - 1) * d THEN Exponent(2 * n, d) + 1
    ELSE IF n >= 2^MantissaBits * d THEN Exponent(n, 2 * d) - 1
    ELSE 0

\* n/d, for n, d > 0, rounded to MantissaBits bits
RoundPositive(n, d) ==
    LET e == Exponent(n, d)
        up == IF e > 0 THEN 2^e ELSE 1
        down == IF e < 0 THEN 2^(0 - e) ELSE 1
        q == (n * up) \div (d * down)
        rest == n * up - q * d * down
        q1 == IF 2 * rest > d * down \/ (2 * rest = d * down /\ q % 2 = 1)
              THEN q + 1 ELSE q
    IN Lowest(q1 * down, up)

\* the float nearest to n/d, for d # 0
Round(n, d) ==
    IF n = 0 THEN <<0, 1>>
    ELSE IF (n > 0) = (d > 0)
    THEN RoundPositive(IF n > 0 THEN n ELSE 0 - n, IF d > 0 THEN d ELSE 0 - d)
    ELSE LET r == RoundPositive(IF n > 0 THEN n ELSE 0 - n,
                                IF d > 0 THEN d ELSE 0 - d)
         IN <<0 - r[1], r[2]>>

\* float(k) for a whole number k
Float(k) == Round(k, 1)
FloatDiv(a, b) == Round(a[1] * b[2], a[2] * b[1])
FloatSub(a, b) == Round(a[1] * b[2] - b[1] * a[2], a[2] * b[2])
FloatAdd(a, b) == Round(a[1] * b[2] + b[1] * a[2], a[2] * b[2])
FloatMul(a, b) == Round(a[1] * b[1], a[2] * b[2])
\* a <= b
FloatLe(a, b) == a[1] * b[2] <= b[1] * a[2]

(* the DeviceReader object *)

\* DeviceReader(reader, sampling_interval, interpolate, allowed_errors)
DeviceReaderNew(interval, interp, errs) ==
    [sampling_interval |-> interval, interpolate |-> interp,
     allowed_errors |-> errs,
     t0 |-> None, t1 |-> None, y0 |-> None, y1 |-> None, stop |-> TRUE]

\* update, read_device having returned (t, y)
UpdateRead(r, t, y) ==
    [r EXCEPT !.t0 = r.t1, !.y0 = r.y1, !.t1 = t, !.y1 = y]

\* update, read_device having raised: the exception is raised again
UpdateRaises(r) == r.allowed_errors = 0

\* update, read_device having raised and the exception being swallowed
UpdateFailed(r) == [r EXCEPT !.allowed_errors = r.allowed_errors - 1]

\* the raw timestamp in place of the grid time
LastTime(r) == r.t1

\* the grid time __aiter__ interpolates at
GridTime(r) == (r.t1 \div r.sampling_interval) * r.sampling_interval

\* get_value(): the last reading, as read
get_value(r) ==
    IF r.t1 = None \/ r.y1 = None
    THEN [exc |-> "ValueError", sample |-> <<>>]
    ELSE [exc |-> "none", sample |-> <<r.t1, Float(r.y1)>>]

\* the linear interpolation of get_value, for t1 # t0
Interpolate(r, t) ==
    LET w == FloatDiv(Float(t - r.t0), Float(r.t1 - r.t0))
    IN FloatAdd(FloatMul(FloatSub(Float(1), w), Float(r.y0)),
                FloatMul(w, Float(r.y1)))

\* get_value(t): the readings interpolated at t
get_value_at(r, t) ==
    IF r.t1 = None \/ r.y1 = None \/ r.t0 = None \/ r.y0 = None
    THEN [exc |-> "ValueError", sample |-> <<>>]
    ELSE IF r.t1 = r.t0
    THEN [exc |-> "ZeroDivisionError", sample |-> <<>>]
    ELSE [exc |-> "none", sample |-> <<t, Interpolate(r, t)>>]

\* __aiter__ yielding the last reading after every successful update
YieldLast(r, pc) == get_value(r)

\* what __aiter__ yields after a successful update: nothing in the prime loop
\* of an interpolating reader
Yield(r, pc) ==
    IF r.interpolate
    THEN IF pc = "prime"
         THEN [exc |-> "none", sample |-> <<>>]
         ELSE get_value_at(r, GridTime(r))
    ELSE get_value(r)

\* stop() has not been called
NoStopCall == [pc |-> "idle", max_retries |-> 0, ret |-> "none"]

\* a DeviceReader constructed and not yet iterated
InitDevice(intervals, interps, errs) ==
    /\ \E i \in intervals : \E p \in interps : \E n \in errs :
          /\ reader = DeviceReaderNew(i, p, n)
          /\ budget = n
    /\ aiter_pc = "new"
    /\ exc = "none"
    /\ reads = 0
    /\ failed = 0
    /\ emitted = <<>>
    /\ stop_call = NoStopCall
    /\ NoBuffer
    /\ NoHub
    /\ NoCompressor
    /\ NoMore

devFrame == <<bufVars, hubVars, histVars, compVars, moreVars>>

\* the loops of __aiter__ running whatever the stop flag is
ReadingAnyway == aiter_pc \in {"prime", "steady"}

\* the loops of __aiter__ are running and stop() has not been called
Reading == aiter_pc \in {"prime", "steady"} /\ ~reader.stop

\* the consumer starts to iterate
Aiter ==
    /\ aiter_pc = "new"
    /\ reader.stop
    /\ reader' = [reader EXCEPT !.stop = FALSE]
    /\ aiter_pc' = "prime"
    /\ UNCHANGED <<exc, budget, reads, failed, emitted, stop_call, devFrame>>

\* one pass of a loop of __aiter__ in which read_device returns a reading;
\* (t, y) is the reading as update stores it, t being the device time or the
\* local time in epoch milliseconds. The sleep between two passes decides
\* when the next reading is taken and is part of the choice of t.
ReadOk(t, y, maxReads) ==
    /\ Reading
    /\ reads < maxReads
    /\ reads' = reads + 1
    /\ reader' = UpdateRead(reader, t, y)
    /\ LET out == Yield(reader', aiter_pc)
       IN IF out.exc # "none"
          THEN /\ aiter_pc' = "raised"
               /\ exc' = out.exc
               /\ emitted' = emitted
          ELSE /\ aiter_pc' = "steady"
               /\ exc' = exc
               /\ emitted' = IF out.sample = <<>> THEN emitted
                             ELSE Append(emitted, out.sample)
    /\ UNCHANGED <<budget, failed, stop_call, devFrame>>

\* one pass of a loop of __aiter__ in which read_device raises
ReadFail(maxReads) ==
    /\ Reading
    /\ reads < maxReads
    /\ reads' = reads + 1
    /\ failed' = failed + 1
    /\ IF UpdateRaises(reader)
       THEN /\ aiter_pc' = "raised"
            /\ exc' = "ReadError"
            /\ reader' = reader
       ELSE /\ reader' = UpdateFailed(reader)
            /\ UNCHANGED <<aiter_pc, exc>>
    /\ UNCHANGED <<budget, emitted, stop_call, devFrame>>

\* stop() called while the sequence is active
StopReader ==
    /\ Reading
    /\ reader' = [reader EXCEPT !.stop = TRUE]
    /\ UNCHANGED <<aiter_pc, exc, budget, reads, failed, emitted, stop_call,
                   devFrame>>

\* the loops of __aiter__ see the stop flag and the sequence ends
AiterEnd ==
    /\ aiter_pc \in {"prime", "steady"}
    /\ reader.stop
    /\ reader' = [reader EXCEPT !.stop = FALSE]
    /\ aiter_pc' = "ended"
    /\ UNCHANGED <<exc, budget, reads, failed, emitted, stop_call, devFrame>>

InitDev == InitDevice(1..MaxInterval, BOOLEAN, (0 - 1)..MaxErrors)

NextDev ==
    \/ Aiter
    \/ \E t \in 1..MaxTime : \E y \in 1..MaxValue : ReadOk(t, y, MaxReads)
    \/ ReadFail(MaxReads)
    \/ StopReader
    \/ AiterEnd

SpecDev == InitDev /\ [][NextDev]_vars

\* an interpolating reader that ignores failed reads, up to its first emission
InitInterp == InitDevice(1..MaxIntervalInterp, {TRUE}, {0 - 1})

NextInterp ==
    \/ Aiter
    \/ \E t \in 1..MaxTimeInterp : \E y \in 1..MaxValueInterp :
          ReadOk(t, y, MaxReadsInterp)

SpecInterp == InitInterp /\ [][NextInterp]_vars

(* properties of the DeviceReader *)

\* C16: with interpolate on, every emitted timestamp is an integer multiple of
\* sampling_interval, whatever the raw timestamps of the readings are.
C16_GridTimestamps ==
    (aiter_pc # "none" /\ reader.interpolate)
        => \A k \in DOMAIN emitted :
              emitted[k][1] % reader.sampling_interval = 0

\* C16 witness: an interpolating reader with a sampling interval of 2 or more
\* has emitted two samples, the last for a reading whose raw timestamp is no
\* multiple of the interval.
C16_Witness ==
    /\ aiter_pc = "steady"
    /\ reader.interpolate
    /\ reader.sampling_interval >= 2
    /\ Len(emitted) = 2
    /\ reader.t1 % reader.sampling_interval # 0
    /\ Last(emitted)[1] = GridTime(reader)

\* C17: with interpolate on, any two consecutively emitted timestamps differ
\* by exactly sampling_interval, whatever the raw timestamps of the readings
\* are.
C17_GridSteps ==
    (aiter_pc # "none" /\ reader.interpolate)
        => \A k \in 1..(Len(emitted) - 1) :
              emitted[k + 1][1] - emitted[k][1] = reader.sampling_interval

\* the last emission was interpolated between the readings now in the sample
\* slots, which have t0 < t1, at a grid time t0 <= t <= t1
EmittedWithin ==
    /\ aiter_pc = "steady"
    /\ reader.interpolate
    /\ emitted # <<>>
    /\ reader.t0 # None
    /\ reader.t0 < reader.t1
    /\ reader.t0 <= GridTime(reader)
    /\ GridTime(reader) <= reader.t1
    /\ Last(emitted)[1] = GridTime(reader)

Min(a, b) == IF a <= b THEN a ELSE b
Max(a, b) == IF a >= b THEN a ELSE b

\* C18: when the grid time t of an emission satisfies t0 <= t <= t1 for the
\* two most recent readings (t0, v0), (t1, v1) with t0 < t1, the emitted value
\* lies between min(v0, v1) and max(v0, v1), is v0 at t = t0 and v1 at t = t1.
C18_InterpolationBounds ==
    EmittedWithin
        => LET t == Last(emitted)[1]
               v == Last(emitted)[2]
           IN /\ FloatLe(Float(Min(reader.y0, reader.y1)), v)
              /\ FloatLe(v, Float(Max(reader.y0, reader.y1)))
              /\ t = reader.t0 => v = Float(reader.y0)
              /\ t = reader.t1 => v = Float(reader.y1)

\* under the same conditions the emitted value is v0 at t = t0 and v1 at
\* t = t1: the weights 0 and 1 are exact
ExactAtEnds ==
    EmittedWithin
        => LET t == Last(emitted)[1]
               v == Last(emitted)[2]
           IN /\ t = reader.t0 => v = Float(reader.y0)
              /\ t = reader.t1 => v = Float(reader.y1)

\* the sequence has ended with the exception of a failed read
ReadErrorSurfaced == aiter_pc = "raised" /\ exc = "ReadError"

\* the two sample slots of the reader r
Slots(r) == <<r.t0, r.y0, r.t1, r.y1>>

\* a reader constructed with allowed_errors = n > 0 ends on its n-th failed
\* read, one constructed with 0 on its first, one with a negative number on
\* none
BudgetKept ==
    aiter_pc # "none"
        => /\ budget > 0 => (ReadErrorSurfaced <=> failed = budget)
           /\ budget = 0 => (ReadErrorSurfaced <=> failed = 1)
           /\ budget < 0 => ~ReadErrorSurfaced

\* a failed read that does not end the sequence emits nothing and leaves the
\* sample slots as they are
FailedReadKeepsSlots ==
    (failed' = failed + 1 /\ aiter_pc' # "raised")
        => /\ emitted' = emitted
           /\ Slots(reader') = Slots(reader)

\* C19: with allowed_errors = n > 0 the reader surfaces the exception and ends
\* the sequence on the n-th failed read, with allowed_errors = 0 on the first,
\* with a negative allowed_errors never; a failed read that does not end the
\* sequence emits nothing and leaves the two sample slots unchanged.
C19_ErrorBudget == []BudgetKept /\ [][FailedReadKeepsSlots]_vars

\* what the reader does: with allowed_errors = n >= 0 it ends on the failed
\* read number n + 1
BudgetPlusOne ==
    aiter_pc # "none"
        => /\ budget >= 0 => (ReadErrorSurfaced <=> failed = budget + 1)
           /\ budget < 0 => ~ReadErrorSurfaced

ErrorBudgetPlusOne == []BudgetPlusOne /\ [][FailedReadKeepsSlots]_vars

\* the reading now in the second sample slot, as a sample
LastReading(r) == <<r.t1, Float(r.y1)>>

\* without failed reads a reader that does not interpolate has emitted one
\* sample for each read, and an interpolating reader none for its first read
EmissionCount ==
    (aiter_pc # "none" /\ failed = 0)
        => /\ ~reader.interpolate => Len(emitted) = reads
           /\ (reader.interpolate /\ reads <= 1) => emitted = <<>>

\* without failed reads each read of a reader that does not interpolate emits
\* the reading as read, and an emission of an interpolating reader is one
\* behind the reads
EmissionStep ==
    (aiter_pc # "none" /\ failed' = 0 /\ reads' = reads + 1)
        => /\ ~reader.interpolate
                 => emitted' = Append(emitted, LastReading(reader'))
           /\ (reader.interpolate /\ emitted' # emitted)
                 => /\ Len(emitted') = Len(emitted) + 1
                    /\ Len(emitted') = reads' - 1

\* C20: without read failures, with interpolate off the k-th emitted sample is
\* exactly the k-th reading, starting with the first, so k emissions take
\* exactly k reads; with interpolate on nothing is emitted for the first
\* reading and k emissions take exactly k+1 reads.
C20_EmissionCount == []EmissionCount /\ [][EmissionStep]_vars

\* C20 witness: an interpolating reader without failed reads has emitted two
\* samples in three reads.
C20_Witness ==
    /\ aiter_pc = "steady"
    /\ reader.interpolate
    /\ failed = 0
    /\ reads = 3
    /\ Len(emitted) = 2

-----------------------------------------------------------------------------
(* DeviceReader.stop and the loops of __aiter__ *)
(* One iteration of a reader is modelled, and calls of stop() that do not  *)
(* overlap.                                                                *)

\* largest max_retries a call of stop() is made with
MaxStopRetries == 1
\* largest raw timestamp and value of a reading, and most calls of
\* read_device, in SpecStop
MaxTimeStop == 2
MaxValueStop == 1
MaxReadsStop == 2

\* stop(max_retries=n): it returns None at once when the flag is set; else it
\* sets the flag and, for n >= 0, sleeps for the first time
Stop(n) ==
    /\ aiter_pc # "none"
    /\ stop_call.pc = "idle"
    /\ IF reader.stop
       THEN /\ stop_call' = [pc |-> "idle", max_retries |-> n, ret |-> "None"]
            /\ reader' = reader
       ELSE /\ reader' = [reader EXCEPT !.stop = TRUE]
            /\ stop_call' =
                  IF n >= 0
                  THEN [pc |-> "sleep", max_retries |-> n - 1, ret |-> "none"]
                  ELSE [pc |-> "idle", max_retries |-> n, ret |-> "False"]
    /\ UNCHANGED <<aiter_pc, exc, budget, reads, failed, emitted, devFrame>>

\* stop() wakes from a sleep: it returns True when the flag is cleared, sleeps
\* again while max_retries >= 0 and returns False after that
StopWake ==
    /\ stop_call.pc = "sleep"
    /\ stop_call' =
          IF ~reader.stop
          THEN [stop_call EXCEPT !.pc = "idle", !.ret = "True"]
          ELSE IF stop_call.max_retries >= 0
          THEN [stop_call EXCEPT !.max_retries = stop_call.max_retries - 1]
          ELSE [stop_call EXCEPT !.pc = "idle", !.ret = "False"]
    /\ UNCHANGED <<reader, aiter_pc, exc, budget, reads, failed, emitted,
                   devFrame>>

InitStop == InitDevice({1}, BOOLEAN, {0 - 1, 0})

NextStop ==
    \/ Aiter
    \/ \E t \in 1..MaxTimeStop : \E y \in 1..MaxValueStop :
          ReadOk(t, y, MaxReadsStop)
    \/ ReadFail(MaxReadsStop)
    \/ \E n \in (0 - 1)..MaxStopRetries : Stop(n)
    \/ StopWake
    \/ AiterEnd

SpecStop == InitStop /\ [][NextStop]_vars

\* the loops of __aiter__ have not been left
LoopActive == aiter_pc \in {"prime", "steady"}

\* with the stop flag set on an active reader no read is made and nothing is
\* emitted, and the next step of __aiter__ ends the sequence
StoppedLoopExits ==
    (LoopActive /\ reader.stop)
        => /\ reads' = reads
           /\ failed' = failed
           /\ emitted' = emitted
           /\ aiter_pc' # aiter_pc => aiter_pc' = "ended"

\* stop() has returned True only with the loops of __aiter__ left
TrueAfterExit == stop_call.ret = "True" => aiter_pc = "ended"

StopCalled == stop_call.pc = "idle" /\ stop_call' # stop_call

\* C22: a call of stop() on a reader that was never started, or whose loop
\* has exited after an earlier stop(), leaves the stop flag of the reader as
\* it was.
C22_StopIdempotent ==
    [][(StopCalled /\ aiter_pc \in {"new", "ended"})
          => reader'.stop = reader.stop]_vars

\* on a reader that was never started stop() changes nothing
StopBeforeStartKeepsFlag ==
    [][(StopCalled /\ aiter_pc = "new") => reader' = reader]_vars

-----------------------------------------------------------------------------
(* DatabaseCopy (vzclient/asyncio/database_copy.py): which channels copy() *)
(* copies, with which options, and the tasks it gathers                    *)

\* the attribute values of channels are the words 1..MaxWord
MaxWord == 2
\* most channels get_channels returns in SpecPlan
MaxChannelsPlan == 1
\* most includes of the configuration
MaxIncludes == 2
\* most exclude patterns of the configuration, over all attributes
MaxExcludes == 1
\* most channels get_channels returns in SpecCopy
MaxChannels == 2

\* the empty string
EmptyWord == 0
\* the name of a channel with neither title nor id, "<unknown>"
Unknown == MaxWord + 1
\* a key the channel dictionary does not have
Missing == 0 - 1

\* attribute values as strip() leaves them
Words == 1..MaxWord

\* a pattern made by make_re, as the set of strings its match() accepts
Patterns == SUBSET (EmptyWord..Unknown)

\* the attributes exclude() looks at, in its order
ExcludeAttrs == <<"title", "type", "class", "id">>

\* channel.get(attr, "").strip()
get(channel, attr) ==
    IF channel[attr] = Missing THEN EmptyWord ELSE channel[attr]

\* get_name
get_name(channel) ==
    IF channel["title"] # Missing THEN channel["title"]
    ELSE IF channel["id"] # Missing THEN channel["id"]
    ELSE Unknown

\* exclude
exclude(channel) ==
    \E a \in DOMAIN ExcludeAttrs :
        \E k \in DOMAIN excludes[ExcludeAttrs[a]] :
            get(channel, ExcludeAttrs[a]) \in excludes[ExcludeAttrs[a]][k]

\* the includes whose pattern matches the name of the channel
Matching(channel) ==
    {i \in DOMAIN includes : get_name(channel) \in includes[i].pattern}

\* include: info is the index of the include whose options are returned
include(channel) ==
    IF Matching(channel) = {} THEN [copy |-> FALSE, info |-> 0]
    ELSE [copy |-> TRUE,
          info |-> CHOOSE i \in Matching(channel) :
                       \A j \in Matching(channel) : i <= j]

RECURSIVE Jobs(_)
\* the jobs copy() has appended after its loop has seen channels 1..k
Jobs(k) ==
    IF k = 0 THEN <<>>
    ELSE IF exclude(channels[k]) THEN Jobs(k - 1)
    ELSE IF include(channels[k]).copy
    THEN Append(Jobs(k - 1),
                [channel |-> k, opts |-> include(channels[k]).info])
    ELSE Jobs(k - 1)

\* init_excludes: the patterns of each attribute, from the list es of
\* (attribute, pattern) pairs
InitExcludes(es) ==
    [a \in {ExcludeAttrs[i] : i \in DOMAIN ExcludeAttrs} |->
        LET picked == SelectSeq(es, LAMBDA e : e[1] = a)
        IN [k \in DOMAIN picked |-> picked[k][2]]]

\* init_includes: one (pattern, options) per include; the options hold the
\* source and the destination dictionary of the include, each with its
\* "driver" key
InitIncludes(ps) ==
    [i \in DOMAIN ps |-> [pattern |-> ps[i], source |-> {"driver"},
                          destination |-> {"driver"}]]

\* a DatabaseCopy constructed, get_channels returning any of chans
InitDatabaseCopy(chans, maxChannels) ==
    /\ channels \in SeqsOf(chans, 1, maxChannels)
    /\ \E es \in SeqsOf({ExcludeAttrs[i] : i \in DOMAIN ExcludeAttrs}
                            \X Patterns, 0, MaxExcludes) :
          excludes = InitExcludes(es)
    /\ \E ps \in SeqsOf(Patterns, 1, MaxIncludes) : includes = InitIncludes(ps)
    /\ jobs = <<>>
    /\ copy_tasks = <<>>
    /\ copy_pc = "new"
    /\ running = {}
    /\ NoBuffer
    /\ NoHub
    /\ NoCompressor
    /\ NoDevice
    /\ NoSql
    /\ NoSink
    /\ NoPrefix
    /\ NoService
    /\ NoLater

copyFrame ==
    <<bufVars, hubVars, histVars, compVars, devVars, sqlVars, sinkWriterVars,
      prefixVars, svcVars,
      laterVars>>

\* a task gather has scheduled and that has not run yet
PendingTask == [pc |-> "pending", exc |-> "none", source |-> {},
                destination |-> {}]

\* copy() up to its await of gather: the jobs are made and scheduled
Copy ==
    /\ copy_pc = "new"
    /\ jobs' = Jobs(Len(channels))
    /\ copy_tasks' = [j \in DOMAIN jobs' |-> PendingTask]
    /\ copy_pc' = "gather"
    /\ UNCHANGED <<channels, excludes, includes, running, copyFrame>>

\* the channels of SpecPlan: any title or none, any type, any class or none,
\* any id or none
ChannelsPlan ==
    [title : Words \cup {Missing}, type : Words,
     class : Words \cup {Missing}, id : Words \cup {Missing}]

InitPlan == InitDatabaseCopy(ChannelsPlan, MaxChannelsPlan)

NextPlan == Copy

SpecPlan == InitPlan /\ [][NextPlan]_vars

\* the tasks that have not completed
Incomplete == {j \in DOMAIN copy_tasks : copy_tasks[j].pc \in {"pending", "copying"}}

\* the first step of the task of job j, tasks starting in the order gather
\* made them: copy_channel up to its first await. get_io_helper pops "driver"
\* from the source and from the destination dictionary of the include, the
\* KeyError of a missing key ends the task
CopyChannelStart(j) ==
    /\ copy_pc \in {"gather", "raised"}
    /\ copy_tasks[j].pc = "pending"
    /\ \A i \in 1..(j - 1) : copy_tasks[i].pc # "pending"
    /\ LET i == jobs[j].opts
           called == [PendingTask EXCEPT !.source = includes[i].source,
                         !.destination = includes[i].destination]
       IN IF "driver" \notin includes[i].source
          THEN /\ copy_tasks' = [copy_tasks EXCEPT ![j] =
                      [called EXCEPT !.pc = "failed", !.exc = "KeyError"]]
               /\ includes' = includes
          ELSE IF "driver" \notin includes[i].destination
          THEN /\ copy_tasks' = [copy_tasks EXCEPT ![j] =
                      [called EXCEPT !.pc = "failed", !.exc = "KeyError"]]
               /\ includes' = [includes EXCEPT ![i].source = @ \ {"driver"}]
          ELSE /\ copy_tasks' = [copy_tasks EXCEPT ![j] =
                      [called EXCEPT !.pc = "copying"]]
               /\ includes' = [includes EXCEPT
                      ![i].source = @ \ {"driver"},
                      ![i].destination = @ \ {"driver"}]
    /\ UNCHANGED <<channels, excludes, jobs, copy_pc, running, copyFrame>>

\* the task of job j has copied its last chunk and released reader and writer
CopyChannelDone(j) ==
    /\ copy_pc \in {"gather", "raised"}
    /\ copy_tasks[j].pc = "copying"
    /\ copy_tasks' = [copy_tasks EXCEPT ![j].pc = "done"]
    /\ UNCHANGED <<channels, excludes, includes, jobs, copy_pc, running,
                   copyFrame>>

\* the reader or the writer of the task of job j raises
CopyChannelFail(j) ==
    /\ copy_pc \in {"gather", "raised"}
    /\ copy_tasks[j].pc = "copying"
    /\ copy_tasks' = [copy_tasks EXCEPT ![j].pc = "failed", ![j].exc = "OSError"]
    /\ UNCHANGED <<channels, excludes, includes, jobs, copy_pc, running,
                   copyFrame>>

\* gather has the results of all tasks and copy() returns
GatherReturn ==
    /\ copy_pc = "gather"
    /\ \A j \in DOMAIN copy_tasks : copy_tasks[j].pc = "done"
    /\ copy_pc' = "returned"
    /\ running' = Incomplete
    /\ UNCHANGED <<channels, excludes, includes, jobs, copy_tasks, copyFrame>>

\* gather, called without return_exceptions, passes the exception of a failed
\* task on and copy() raises
GatherRaise ==
    /\ copy_pc = "gather"
    /\ \E j \in DOMAIN copy_tasks : copy_tasks[j].pc = "failed"
    /\ copy_pc' = "raised"
    /\ running' = Incomplete
    /\ UNCHANGED <<channels, excludes, includes, jobs, copy_tasks, copyFrame>>

\* the channels of SpecCopy: a title or none, an id
ChannelsCopy ==
    [title : Words \cup {Missing}, type : {1}, class : {Missing}, id : {1}]

InitCopy == InitDatabaseCopy(ChannelsCopy, MaxChannels)

NextCopy ==
    \/ Copy
    \/ \E j \in DOMAIN copy_tasks : CopyChannelStart(j)
    \/ \E j \in DOMAIN copy_tasks : CopyChannelDone(j)
    \/ \E j \in DOMAIN copy_tasks : CopyChannelFail(j)
    \/ GatherReturn
    \/ GatherRaise

SpecCopy == InitCopy /\ [][NextCopy]_vars

(* Properties of DatabaseCopy *)

\* some exclude pattern matches the title, type, class or id of channel k
Excluded(k) ==
    \E a \in {"title", "type", "class", "id"} :
        \E p \in {excludes[a][n] : n \in DOMAIN excludes[a]} :
            (IF channels[k][a] = Missing THEN EmptyWord ELSE channels[k][a])
                \in p

\* the includes whose pattern matches the name of channel k
Included(k) ==
    {i \in DOMAIN includes : get_name(channels[k]) \in includes[i].pattern}

\* the jobs copy() made for channel k
JobsOf(k) == {j \in DOMAIN jobs : jobs[j].channel = k}

\* copy() has made its jobs by the rules: one job for a channel that no
\* exclude matches and some include matches, none for any other channel,
\* and the options of the job are those of the first include that matches
PlanFollowsRules ==
    copy_pc # "new" =>
        \A k \in DOMAIN channels :
            /\ JobsOf(k) # {} <=> (~Excluded(k) /\ Included(k) # {})
            /\ Cardinality(JobsOf(k)) <= 1
            /\ \A j \in JobsOf(k) :
                  /\ jobs[j].opts \in Included(k)
                  /\ \A i \in Included(k) : jobs[j].opts <= i

\* the options an include is configured with
Configured == [source |-> {"driver"}, destination |-> {"driver"}]

\* every task that has started was called with the options of its include
\* as they are configured
OptionsAsConfigured ==
    \A j \in DOMAIN copy_tasks :
        copy_tasks[j].pc # "pending" =>
            /\ copy_tasks[j].source = Configured.source
            /\ copy_tasks[j].destination = Configured.destination

\* C23: a channel gets a copy task exactly when no exclude pattern matches one
\* of its attributes and some include pattern matches its name, and the task
\* uses the options of the first include that matches
C23_PlanAndOptions == PlanFollowsRules /\ OptionsAsConfigured

\* two channels matched by the same include have both been started
SharedIncludeStarted ==
    \E j1, j2 \in DOMAIN copy_tasks :
        /\ j1 # j2
        /\ jobs[j1].opts = jobs[j2].opts
        /\ copy_tasks[j1].pc # "pending"
        /\ copy_tasks[j2].pc # "pending"

\* an exclude has won over an include, and a second include was passed over
ExcludeWon ==
    /\ copy_pc # "new"
    /\ \E k \in DOMAIN channels : Excluded(k) /\ Included(k) # {}

FirstIncludeWon ==
    /\ copy_pc # "new"
    /\ \E k \in DOMAIN channels : JobsOf(k) # {} /\ Cardinality(Included(k)) = 2

\* C24: copy() returns or raises only when every task it scheduled has
\* completed
C24_AllTasksComplete == copy_pc \in {"returned", "raised"} => running = {}

\* copy() returns, as opposed to raising, only when every task has completed
ReturnsAfterAll == copy_pc = "returned" => running = {}

\* a task left running when copy() raised has run to completion afterwards
CompletedAfterRaise ==
    /\ copy_pc = "raised"
    /\ running # {}
    /\ Incomplete = {}

-----------------------------------------------------------------------------
(* MySqlDriver (vzclient/asyncio/mysql_driver.py): iter_chunks and the     *)
(* queries of iter_measurements. A row of the data table is identified by  *)
(* its channel_id and its timestamp; its value is carried along unchanged  *)
(* and left out. The table does not change while it is read.               *)

\* largest channel_id of a row
MaxChannelId == 2
\* largest timestamp of a row; begin and end go one further
MaxStamp == 3
\* largest chunk_size
MaxLimit == 2

\* the timestamps of the rows in S, ascending
RECURSIVE Ascending(_)
Ascending(S) ==
    IF S = {} THEN <<>>
    ELSE LET least == CHOOSE t \in S : \A u \in S : t <= u
         IN <<least>> \o Ascending(S \ {least})

\* the timestamps the WHERE clause where selects from the table
Where(where) ==
    {r[2] : r \in {q \in sql_rows :
        /\ q[1] = where.channel_id
        /\ where.lt # None => q[2] < where.lt
        /\ where.ge # None => q[2] >= where.ge
        /\ where.gt # None => q[2] > where.gt}}

\* data(where=where, limit=limit, order="timestamp ASC"), by select:
\* SELECT * FROM data WHERE ... ORDER BY timestamp ASC LIMIT limit
select(where, limit) ==
    LET all == Ascending(Where(where))
    IN SubSeq(all, 1, IF Len(all) < limit THEN Len(all) ELSE limit)

\* a connected MySqlDriver, iter_chunks not yet iterated; begin and end are
\* None or whole numbers of milliseconds
InitSql ==
    /\ sql_rows \in SUBSET ((1..MaxChannelId) \X (1..MaxStamp))
    /\ sql_args \in [channel : 1..MaxChannelId,
                     begin : {None} \cup 1..(MaxStamp + 1),
                     end : {None} \cup 1..(MaxStamp + 1),
                     chunk_size : 1..MaxLimit]
    /\ sql_where = <<>>
    /\ sql_pc = "new"
    /\ sql_chunks = <<>>
    /\ NoBuffer
    /\ NoHub
    /\ NoCompressor
    /\ NoDevice
    /\ NoCopy
    /\ NoSink
    /\ NoPrefix
    /\ NoService
    /\ NoLater

sqlFrame ==
    <<bufVars, hubVars, histVars, compVars, devVars, copyVars, sinkWriterVars,
      prefixVars, svcVars,
      laterVars>>

\* iter_measurements up to its loop: the WHERE clause of the first query.
\* With a begin that is no datetime t0 is int(end), and int(None) raises
\* TypeError
IterMeasurements ==
    /\ sql_pc = "new"
    /\ IF sql_args.begin # None /\ sql_args.end = None
       THEN /\ sql_pc' = "raised"
            /\ sql_where' = sql_where
       ELSE /\ sql_pc' = "loop"
            /\ sql_where' =
                  [channel_id |-> sql_args.channel, lt |-> sql_args.end,
                   ge |-> IF sql_args.begin # None THEN sql_args.end ELSE None,
                   gt |-> None]
    /\ UNCHANGED <<sql_rows, sql_args, sql_chunks, sqlFrame>>

\* one pass of the loop of iter_measurements: a query; no rows end the
\* iteration, else iter_chunks yields the chunk and the next query asks for
\* the timestamps after the last one of the chunk
Query ==
    /\ sql_pc = "loop"
    /\ LET got == select(sql_where, sql_args.chunk_size)
       IN IF got = <<>>
          THEN /\ sql_pc' = "done"
               /\ UNCHANGED <<sql_where, sql_chunks>>
          ELSE /\ sql_chunks' = Append(sql_chunks, got)
               /\ sql_where' = [sql_where EXCEPT !.ge = None,
                                   !.gt = got[Len(got)]]
               /\ sql_pc' = sql_pc
    /\ UNCHANGED <<sql_rows, sql_args, sqlFrame>>

NextSql == IterMeasurements \/ Query

SpecSql == InitSql /\ [][NextSql]_vars

(* Properties of iter_chunks *)

\* the timestamps yielded so far, in the order they were yielded
Yielded == Concat(sql_chunks)

\* the timestamps of the rows of the channel with begin <= timestamp < end,
\* a bound that is None not bounding
InRange ==
    {r[2] : r \in {q \in sql_rows :
        /\ q[1] = sql_args.channel
        /\ sql_args.begin # None => sql_args.begin <= q[2]
        /\ sql_args.end # None => q[2] < sql_args.end}}

\* every chunk yielded has at least one and at most chunk_size rows
ChunksFilled ==
    \A n \in DOMAIN sql_chunks :
        Len(sql_chunks[n]) \in 1..sql_args.chunk_size

\* C25: with whole numbers as begin and end iter_chunks has yielded, when it
\* ends, the rows with begin <= timestamp < end, each once and ascending, in
\* chunks of 1 to chunk_size rows
C25_KeysetPagination ==
    (sql_pc = "done" /\ sql_args.begin # None /\ sql_args.end # None) =>
        /\ Yielded = Ascending(InRange)
        /\ ChunksFilled

\* without begin iter_chunks yields the rows below end, each once and
\* ascending, in chunks of 1 to chunk_size rows
PaginationWithoutBegin ==
    (sql_pc = "done" /\ sql_args.begin = None) =>
        /\ Yielded = Ascending(InRange)
        /\ ChunksFilled

\* with whole numbers as begin and end no row is yielded at all
NothingWithBegin ==
    sql_args.begin # None => sql_chunks = <<>>

\* rows in range, more than one chunk of them, read without begin
SeveralChunks ==
    /\ sql_pc = "done"
    /\ Len(sql_chunks) >= 2
    /\ sql_args.end # None
    /\ \E r \in sql_rows : r[1] = sql_args.channel /\ r[2] >= sql_args.end

-----------------------------------------------------------------------------
(* InfluxDriver as writer (vzclient/asyncio/influx_driver.py): init_writer, *)
(* write_chunk, flush_buffer and the release by __aexit__. One task uses    *)
(* the writer, as copy_channel does. A sample is (t, x) with whole numbers. *)

\* longest prefix
MaxPrefixLen == 2
\* largest buffer_size
MaxBufferSize == 72
\* the value of a sample is 1 or MaxSinkValue
MaxSinkValue == 10
\* longest chunk passed to write_chunk
MaxChunkLen == 2
\* most samples passed to the writer
MaxSinkSamples == 4

\* init_writer: 2 * 32, the characters assumed for the fields of a line
FieldChars == 64

\* a byte of bytearray(buffer_size)
Zero == "\\0"

DigitChars == <<"0", "1", "2", "3", "4", "5", "6", "7", "8", "9">>

RECURSIVE Digits(_)
\* str(n) of a whole number n >= 0, as its characters
Digits(n) ==
    IF n < 10 THEN <<DigitChars[n + 1]>>
    ELSE Digits(n \div 10) \o <<DigitChars[(n % 10) + 1]>>

\* f"{x} {t}\n".encode() for the sample (t, x)
Rest(sample) == Digits(sample[2]) \o <<" ">> \o Digits(sample[1]) \o <<"\n">>

\* b[first:last] = bytes of a bytearray b, indices counted from 0: the slice
\* is clipped to the bytearray and replaced by bytes
SliceAssign(b, first, last, bytes) ==
    LET lo == IF first > Len(b) THEN Len(b) ELSE first
        hi0 == IF last > Len(b) THEN Len(b) ELSE last
        hi == IF hi0 < lo THEN lo ELSE hi0
    IN SubSeq(b, 1, lo) \o bytes \o SubSeq(b, hi + 1, Len(b))

\* init_writer, the prefix being given; buffer_size keeps the argument
init_writer(prefix, size) ==
    [prefix |-> prefix,
     buffer_size |-> size,
     buffer |-> [n \in 1..size |-> Zero],
     high_water_mark |-> size - (Len(prefix) + FieldChars),
     bytes_in_buffer |-> 0,
     connected |-> FALSE]

\* one pass of the loop of write_chunk, up to the test of the mark
WriteLine(w, sample) ==
    LET first == w.bytes_in_buffer
        last == first + Len(w.prefix)
        b1 == SliceAssign(w.buffer, first, last, w.prefix)
        rest == Rest(sample)
        last2 == last + Len(rest)
    IN [w EXCEPT !.buffer = SliceAssign(b1, last, last2, rest),
                 !.bytes_in_buffer = last2]

\* flush_buffer sending the whole bytearray
FlushWholeBuffer(w) == w.buffer

\* flush_buffer: data = self._buffer[:self._bytes_in_buffer]
FlushData(w) == SubSeq(w.buffer, 1, w.bytes_in_buffer)

\* a writer made by get_writer and entered: init_writer, then __aenter__
InitSink ==
    /\ \E n \in 1..MaxPrefixLen : \E size \in 0..MaxBufferSize :
          sink = [init_writer([k \in 1..n |-> "p"], size)
                      EXCEPT !.connected = TRUE]
    /\ sink_pc = "idle"
    /\ sink_chunk = <<>>
    /\ sink_sent = <<>>
    /\ sink_passed = <<>>
    /\ sink_failed = FALSE
    /\ NoBuffer
    /\ NoHub
    /\ NoCompressor
    /\ NoDevice
    /\ NoCopy
    /\ NoSql
    /\ NoPrefix
    /\ NoService
    /\ NoLater

sinkFrame ==
    <<bufVars, hubVars, histVars, compVars, devVars, copyVars, sqlVars,
      prefixVars, svcVars,
      laterVars>>

\* write_chunk is called with a chunk of samples; the timestamps count the
\* samples
WriteChunk(xs) ==
    /\ sink_pc = "idle"
    /\ Len(sink_passed) + Len(xs) <= MaxSinkSamples
    /\ sink_chunk' = [k \in DOMAIN xs |-> <<Len(sink_passed) + k, xs[k]>>]
    /\ sink_passed' = sink_passed \o sink_chunk'
    /\ sink_pc' = "write"
    /\ UNCHANGED <<sink, sink_sent, sink_failed, sinkFrame>>

\* one pass of the loop of write_chunk: the line of the next sample goes to
\* the buffer; over the mark flush_buffer is awaited
WriteSample ==
    /\ sink_pc = "write"
    /\ sink_chunk # <<>>
    /\ sink' = WriteLine(sink, Head(sink_chunk))
    /\ sink_chunk' = Tail(sink_chunk)
    /\ sink_pc' = IF sink'.bytes_in_buffer > sink'.high_water_mark
                  THEN "flush" ELSE "write"
    /\ UNCHANGED <<sink_sent, sink_passed, sink_failed, sinkFrame>>

\* the loop of write_chunk is through and write_chunk returns
WriteChunkReturn ==
    /\ sink_pc = "write"
    /\ sink_chunk = <<>>
    /\ sink_pc' = "idle"
    /\ UNCHANGED <<sink, sink_chunk, sink_sent, sink_passed, sink_failed,
                   sinkFrame>>

\* flush_buffer called by write_chunk: the sink accepts the write
FlushOk ==
    /\ sink_pc = "flush"
    /\ sink_sent' = IF sink.bytes_in_buffer > 0
                    THEN Append(sink_sent, FlushData(sink)) ELSE sink_sent
    /\ sink' = [sink EXCEPT !.bytes_in_buffer = 0]
    /\ sink_pc' = "write"
    /\ UNCHANGED <<sink_chunk, sink_passed, sink_failed, sinkFrame>>

\* flush_buffer called by write_chunk: the write of the sink raises, and so
\* does write_chunk; the rest of the chunk is not written
FlushFail ==
    /\ sink_pc = "flush"
    /\ sink.bytes_in_buffer > 0
    /\ sink_failed' = TRUE
    /\ sink_chunk' = <<>>
    /\ sink_pc' = "idle"
    /\ UNCHANGED <<sink, sink_sent, sink_passed, sinkFrame>>

\* __aexit__ with the sink accepting the write of flush_buffer, if there is
\* one: the bytes left are sent and the writer disconnects
ExitOk ==
    /\ sink_pc = "idle"
    /\ sink.connected
    /\ sink_sent' = IF sink.bytes_in_buffer > 0
                    THEN Append(sink_sent, FlushData(sink)) ELSE sink_sent
    /\ sink' = [sink EXCEPT !.bytes_in_buffer = 0, !.connected = FALSE]
    /\ sink_pc' = "released"
    /\ UNCHANGED <<sink_chunk, sink_passed, sink_failed, sinkFrame>>

\* __aexit__ with the write of flush_buffer raising: the exception is logged
\* and the writer disconnects
ExitFail ==
    /\ sink_pc = "idle"
    /\ sink.connected
    /\ sink.bytes_in_buffer > 0
    /\ sink_failed' = TRUE
    /\ sink' = [sink EXCEPT !.connected = FALSE]
    /\ sink_pc' = "released"
    /\ UNCHANGED <<sink_chunk, sink_sent, sink_passed, sinkFrame>>

NextSink ==
    \/ \E xs \in SeqsOf({1, MaxSinkValue}, 0, MaxChunkLen) : WriteChunk(xs)
    \/ WriteSample
    \/ WriteChunkReturn
    \/ FlushOk
    \/ FlushFail
    \/ ExitOk
    \/ ExitFail

SpecSink == InitSink /\ [][NextSink]_vars

(* Properties of the writer *)

RECURSIVE Lines(_, _)
\* the line-protocol records of the samples, one after the other
Lines(prefix, ss) ==
    IF ss = <<>> THEN <<>>
    ELSE prefix \o Digits(Head(ss)[2]) \o <<" ">> \o Digits(Head(ss)[1])
             \o <<"\n">> \o Lines(prefix, Tail(ss))

\* the samples write_chunk has written
Written == SubSeq(sink_passed, 1, Len(sink_passed) - Len(sink_chunk))

\* what the sink has got and what is buffered is the records of the samples
\* written, in order
NothingLost ==
    Concat(sink_sent) \o SubSeq(sink.buffer, 1, sink.bytes_in_buffer)
        = Lines(sink.prefix, Written)

\* buffer_size - (len(prefix) + 64)
Mark == sink.buffer_size - (Len(sink.prefix) + FieldChars)

\* a flush is awaited with the buffered bytes over the mark, and no bytes
\* over the mark are buffered unless a flush is awaited
FlushOverMark ==
    /\ sink_pc = "flush" => sink.bytes_in_buffer > Mark
    /\ sink_pc \in {"idle", "write"} =>
          (sink.bytes_in_buffer = 0 \/ sink.bytes_in_buffer <= Mark)

\* C26: as long as no write of the sink fails, every sample written is sent
\* or buffered, once and in order; a flush is awaited as soon as the buffered
\* bytes exceed buffer_size - (len(prefix) + 64); when the writer is released
\* every sample passed has been sent and nothing is buffered
C26_SentOnceInOrder ==
    (sink_pc # "none" /\ ~sink_failed) =>
        /\ NothingLost
        /\ FlushOverMark
        /\ sink_pc = "released" =>
              /\ Concat(sink_sent) = Lines(sink.prefix, sink_passed)
              /\ sink.bytes_in_buffer = 0

\* a writer released after a flush by the mark and a flush of the rest
C26_Witness ==
    /\ sink_pc = "released"
    /\ ~sink_failed
    /\ Len(sink_sent) = 2
    /\ Len(sink_passed) = MaxSinkSamples
    /\ Len(sink_sent[1]) # Len(sink_sent[2])

-----------------------------------------------------------------------------
(* InfluxDriver.get_prefix (vzclient/asyncio/influx_driver.py). A string is *)
(* the sequence of its characters; a dict is the sequence of its (key,      *)
(* value) pairs in insertion order, the keys distinct. escape and its       *)
(* tables are those of aioinflux.serialization.common. The characters are   *)
(* ASCII, which encode("utf-8") leaves as they are.                         *)

\* longest tag key
MaxKeyLen == 2
\* most tags
MaxTags == 2

\* the characters, in the order of their code points
Alphabet == <<"\n", " ", ",", "=", "\\", "a">>

\* the characters tag keys are made of
KeyAlphabet == {",", "a"}

\* the tag values, of one character
TagValues == {<<"\n">>, <<"=">>}

\* ord(c)
Code(c) == CHOOSE n \in DOMAIN Alphabet : Alphabet[n] = c

RECURSIVE StrLess(_, _)
\* a < b for strings
StrLess(a, b) ==
    IF b = <<>> THEN FALSE
    ELSE IF a = <<>> THEN TRUE
    ELSE IF Head(a) # Head(b) THEN Code(Head(a)) < Code(Head(b))
    ELSE StrLess(Tail(a), Tail(b))

RECURSIVE Insert(_, _)
\* the sorted list keys with k put in its place
Insert(keys, k) ==
    IF keys = <<>> THEN <<k>>
    ELSE IF StrLess(k, Head(keys)) THEN <<k>> \o keys
    ELSE <<Head(keys)>> \o Insert(Tail(keys), k)

RECURSIVE Sort(_)
Sort(keys) ==
    IF keys = <<>> THEN <<>>
    ELSE Insert(Sort(SubSeq(keys, 1, Len(keys) - 1)), keys[Len(keys)])

\* the keys in the order the dict has them
unsorted(keys) == keys

\* sorted(tags.keys())
sorted(keys) == Sort(keys)

\* tag_escape and key_escape: what a character is translated to
tag_escape ==
    [c \in {Alphabet[n] : n \in DOMAIN Alphabet} |->
        IF c = "\n" THEN <<>>
        ELSE IF c \in {"\\", ",", " ", "="} THEN <<"\\", c>>
        ELSE <<c>>]

key_escape == tag_escape

\* measurement_escape
measurement_escape ==
    [c \in {Alphabet[n] : n \in DOMAIN Alphabet} |->
        IF c = "\n" THEN <<>>
        ELSE IF c \in {"\\", ",", " "} THEN <<"\\", c>>
        ELSE <<c>>]

RECURSIVE escape(_, _)
\* escape(string, table): string.translate(table)
escape(string, table) ==
    IF string = <<>> THEN <<>>
    ELSE table[Head(string)] \o escape(Tail(string), table)

\* tags.keys()
Keys(tags) == [n \in DOMAIN tags |-> tags[n][1]]

\* tags[key]
Lookup(tags, key) ==
    tags[CHOOSE n \in DOMAIN tags : tags[n][1] = key][2]

RECURSIVE Join(_, _)
\* sep.join(strs)
Join(sep, strs) ==
    IF strs = <<>> THEN <<>>
    ELSE IF Len(strs) = 1 THEN strs[1]
    ELSE strs[1] \o sep \o Join(sep, Tail(strs))

\* get_prefix
get_prefix(measurement, tags, field_name) ==
    LET keys == sorted(Keys(tags))
        tag_str == Join(<<",">>,
                        [n \in DOMAIN keys |->
                            escape(keys[n], tag_escape) \o <<"=">>
                                \o escape(Lookup(tags, keys[n]), tag_escape)])
    IN escape(measurement, measurement_escape) \o <<",">> \o tag_str
           \o <<" ">> \o escape(field_name, key_escape) \o <<"=">>

\* the measurements and field names, of one character
Names == {<<" ">>, <<"=">>, <<"a">>}

\* the dicts of at most MaxTags tags, in every insertion order
TagDicts ==
    {tags \in SeqsOf(SeqsOf(KeyAlphabet, 1, MaxKeyLen) \X TagValues, 0,
                     MaxTags) :
        \A m, n \in DOMAIN tags : m # n => tags[m][1] # tags[n][1]}

\* get_prefix is about to be called
InitPrefix ==
    /\ prefix_args \in [measurement : Names, tags : TagDicts,
                        field_name : Names]
    /\ prefix_out = <<>>
    /\ NoBuffer
    /\ NoHub
    /\ NoCompressor
    /\ NoDevice
    /\ NoCopy
    /\ NoSql
    /\ NoSink
    /\ NoService
    /\ NoLater

prefixFrame ==
    <<bufVars, hubVars, histVars, compVars, devVars, copyVars, sqlVars,
      sinkWriterVars, svcVars,
      laterVars>>

\* the call of get_prefix
GetPrefix ==
    /\ prefix_out = <<>>
    /\ prefix_out' = get_prefix(prefix_args.measurement, prefix_args.tags,
                                prefix_args.field_name)
    /\ UNCHANGED <<prefix_args, prefixFrame>>

NextPrefix == GetPrefix

SpecPrefix == InitPrefix /\ [][NextPrefix]_vars

(* Properties of get_prefix *)

\* the (key, value) pairs of a dict
Pairs(tags) == {tags[n] : n \in DOMAIN tags}

\* the dicts with the pairs of tags, in every insertion order
Reordered(tags) ==
    {[n \in DOMAIN tags |-> tags[f[n]]] : f \in Permutations(DOMAIN tags)}

RECURSIVE TagsAscending(_)
\* key=value of the pairs in S, escaped, from the least key to the greatest
TagsAscending(S) ==
    IF S = {} THEN <<>>
    ELSE LET least == CHOOSE p \in S :
                          \A q \in S : q = p \/ StrLess(p[1], q[1])
         IN <<escape(least[1], tag_escape) \o <<"=">>
                  \o escape(least[2], tag_escape)>>
                \o TagsAscending(S \ {least})

\* C27: the prefix has the tags in ascending order of their keys, and it is
\* the same for every insertion order of the same tags
C27_PrefixCanonical ==
    prefix_out # <<>> =>
        /\ prefix_out =
              escape(prefix_args.measurement, measurement_escape) \o <<",">>
                  \o Join(<<",">>, TagsAscending(Pairs(prefix_args.tags)))
                  \o <<" ">> \o escape(prefix_args.field_name, key_escape)
                  \o <<"=">>
        /\ \A other \in Reordered(prefix_args.tags) :
              get_prefix(prefix_args.measurement, other,
                         prefix_args.field_name) = prefix_out

\* a prefix made of two tags inserted in descending order of their keys, the
\* first a prefix of the second
C27_Witness ==
    /\ prefix_out # <<>>
    /\ Len(prefix_args.tags) = 2
    /\ StrLess(prefix_args.tags[2][1], prefix_args.tags[1][1])
    /\ Len(prefix_args.tags[2][1]) < Len(prefix_args.tags[1][1])
    /\ SubSeq(prefix_args.tags[1][1], 1, 1) = prefix_args.tags[2][1]

-----------------------------------------------------------------------------
(* Service (vzclient/service.py): the scope that installs handle_signal,   *)
(* the signals delivered to the process and the runs of an asynchronous    *)
(* callback. A handler is "SIG_DFL", "callable" (a Python handler of the   *)
(* program), "None" (a handler not installed from Python, which            *)
(* signal.signal returns as None) or "handle_signal" (of the Service).     *)
(* An asynchronous callback is used with the asynchronous scope; a         *)
(* synchronous callback returns None, as Main.stop of the tests does.      *)

\* the signals are 1..MaxSignal
MaxSignal == 2
\* longest list of signals a Service is constructed with
MaxSignalList == 2
\* most signals delivered to the process
MaxDeliveries == 3
\* most calls of enable() inside the scope, after the one of the entry
MaxEnables == 1

\* _callback_result before any callback was called, and the return value of
\* a synchronous callback
NoResult == [kind |-> "None", n |-> 0]

\* Service(signals, callback)
ServiceNew(signals, callback, async) ==
    [cancel |-> FALSE, signum |-> 0, saved_signals |-> <<>>,
     signals |-> signals, callback |-> callback, callback_result |-> NoResult,
     async |-> async]

\* signal.signal(s, f): a handler that is None raises TypeError
signal_signal(hs, s, f) ==
    IF f = "None" THEN [handlers |-> hs, old |-> hs[s], exc |-> TRUE]
    ELSE [handlers |-> [hs EXCEPT ![s] = f], old |-> hs[s], exc |-> FALSE]

RECURSIVE disable(_, _)
\* disable(): the saved handlers are popped, last first, and installed
disable(sv, hs) ==
    IF sv.saved_signals = <<>> THEN [svc |-> sv, handlers |-> hs, exc |-> FALSE]
    ELSE LET item == sv.saved_signals[Len(sv.saved_signals)]
             popped == [sv EXCEPT !.saved_signals =
                           SubSeq(@, 1, Len(sv.saved_signals) - 1)]
             set == signal_signal(hs, item[1], item[2])
         IN IF set.exc THEN [svc |-> popped, handlers |-> hs, exc |-> TRUE]
            ELSE disable(popped, set.handlers)

\* saved[s] = f for a dict kept as the list of its items
SetItem(saved, s, f) ==
    IF \E n \in DOMAIN saved : saved[n][1] = s
    THEN [n \in DOMAIN saved |-> IF saved[n][1] = s THEN <<s, f>> ELSE saved[n]]
    ELSE Append(saved, <<s, f>>)

RECURSIVE Install(_, _, _)
\* the loop of enable(), from the k-th signal on
Install(sv, hs, k) ==
    IF k > Len(sv.signals) THEN [svc |-> sv, handlers |-> hs, exc |-> FALSE]
    ELSE LET set == signal_signal(hs, sv.signals[k], "handle_signal")
         IN Install([sv EXCEPT !.saved_signals =
                        SetItem(@, sv.signals[k], set.old)],
                    set.handlers, k + 1)

\* enable()
enable(sv, hs) ==
    IF disable(sv, hs).exc THEN disable(sv, hs)
    ELSE Install(disable(sv, hs).svc, disable(sv, hs).handlers, 1)

\* handle_signal skipping the callback once cancel is set
CallbackOnce(sv) == sv.callback # "none" /\ ~sv.cancel

\* handle_signal: the callback is called
CallsCallback(sv) == sv.callback # "none"

\* a Service constructed, its scope not yet entered
InitService ==
    /\ \E signals \in SeqsOf(1..MaxSignal, 1, MaxSignalList) :
       \E callback \in {"none", "sync", "async"} :
       \E async \in BOOLEAN :
          /\ callback = "async" => async
          /\ svc = ServiceNew(signals, callback, async)
    /\ handlers \in [1..MaxSignal -> {"SIG_DFL", "callable", "None"}]
    /\ svc_pc = "new"
    /\ svc_runs = <<>>
    /\ svc_hist = [orig |-> handlers, enables |-> 0, delivered |-> 0,
                   handled |-> 0, calls |-> 0, exc |-> FALSE]
    /\ NoBuffer
    /\ NoHub
    /\ NoCompressor
    /\ NoDevice
    /\ NoCopy
    /\ NoSql
    /\ NoSink
    /\ NoPrefix
    /\ NoLater

svcFrame ==
    <<bufVars, hubVars, histVars, compVars, devVars, copyVars, sqlVars,
      sinkWriterVars, prefixVars,
      laterVars>>

\* __enter__ or __aenter__: enable()
Enter ==
    /\ svc_pc = "new"
    /\ svc' = enable(svc, handlers).svc
    /\ handlers' = enable(svc, handlers).handlers
    /\ svc_pc' = "inside"
    /\ svc_hist' = [svc_hist EXCEPT !.exc = @ \/ enable(svc, handlers).exc]
    /\ UNCHANGED <<svc_runs, svcFrame>>

\* enable() called again inside the scope
Enable ==
    /\ svc_pc = "inside"
    /\ svc_hist.enables < MaxEnables
    /\ svc' = enable(svc, handlers).svc
    /\ handlers' = enable(svc, handlers).handlers
    /\ svc_hist' = [svc_hist EXCEPT !.enables = @ + 1,
                       !.exc = @ \/ enable(svc, handlers).exc]
    /\ UNCHANGED <<svc_pc, svc_runs, svcFrame>>

\* signal s is delivered to the process: handle_signal runs if it is the
\* handler of s, else the Service is not touched
Signal(s) ==
    /\ svc_pc # "none"
    /\ svc_hist.delivered < MaxDeliveries
    /\ IF handlers[s] = "handle_signal"
       THEN /\ svc_runs' =
                  IF CallsCallback(svc) /\ svc.callback = "async"
                  THEN Append(svc_runs, [state |-> "running",
                                         inside |-> svc_pc = "inside"])
                  ELSE svc_runs
            /\ svc' = [svc EXCEPT !.signum = s, !.cancel = TRUE,
                          !.callback_result =
                              IF ~CallsCallback(svc) THEN @
                              ELSE IF svc.callback = "async"
                              THEN [kind |-> "future", n |-> Len(svc_runs')]
                              ELSE NoResult]
            /\ svc_hist' = [svc_hist EXCEPT !.delivered = @ + 1,
                               !.handled = @ + 1,
                               !.calls = IF CallsCallback(svc) THEN @ + 1
                                         ELSE @]
       ELSE /\ svc_hist' = [svc_hist EXCEPT !.delivered = @ + 1]
            /\ UNCHANGED <<svc, svc_runs>>
    /\ UNCHANGED <<handlers, svc_pc, svcFrame>>

\* a run of the asynchronous callback completes
RunDone(i) ==
    /\ svc_runs[i].state = "running"
    /\ svc_runs' = [svc_runs EXCEPT ![i].state = "done"]
    /\ UNCHANGED <<svc, handlers, svc_pc, svc_hist, svcFrame>>

\* __exit__, and __aexit__ up to its await: disable(); the asynchronous exit
\* then awaits _callback_result if it is not None
Exit ==
    /\ svc_pc = "inside"
    /\ svc' = disable(svc, handlers).svc
    /\ handlers' = disable(svc, handlers).handlers
    /\ svc_hist' = [svc_hist EXCEPT !.exc = @ \/ disable(svc, handlers).exc]
    /\ svc_pc' = IF /\ svc.async
                    /\ ~disable(svc, handlers).exc
                    /\ svc.callback_result.kind = "future"
                 THEN "exiting" ELSE "left"
    /\ UNCHANGED <<svc_runs, svcFrame>>

\* the future __aexit__ awaits is done: _callback_result is its result, the
\* return value of the run, and __aexit__ returns
AexitReturn ==
    /\ svc_pc = "exiting"
    /\ svc_runs[svc.callback_result.n].state = "done"
    /\ svc' = [svc EXCEPT !.callback_result =
                  [kind |-> "value", n |-> svc.callback_result.n]]
    /\ svc_pc' = "left"
    /\ UNCHANGED <<handlers, svc_runs, svc_hist, svcFrame>>

NextService ==
    \/ Enter
    \/ Enable
    \/ \E s \in 1..MaxSignal : Signal(s)
    \/ \E i \in DOMAIN svc_runs : RunDone(i)
    \/ Exit
    \/ AexitReturn

SpecService == InitService /\ [][NextService]_vars

(* Properties of Service *)

\* the signals the Service is configured with
ConfiguredSignals == {svc.signals[n] : n \in DOMAIN svc.signals}

\* no signal is configured twice, and the handler of every configured signal
\* was installed from Python before the first entry
WellFormed ==
    /\ \A m, n \in DOMAIN svc.signals :
          m # n => svc.signals[m] # svc.signals[n]
    /\ \A s \in ConfiguredSignals : svc_hist.orig[s] # "None"

\* every configured signal has the handler it had before the first entry
HandlersRestored == \A s \in ConfiguredSignals : handlers[s] = svc_hist.orig[s]

\* C28: once the scope is left every configured signal has the handler it had
\* before the first entry, and no signal changes the cancel flag any more
C28_HandlersRestored ==
    /\ [](svc_pc = "left" => HandlersRestored)
    /\ [][svc_pc = "left" => svc'.cancel = svc.cancel]_vars

\* for a Service whose signals are distinct and had handlers installed from
\* Python: once the scope is left every configured signal has the handler it
\* had before the first entry, and no signal changes the cancel flag any more
RestoredIfWellFormed ==
    /\ [](WellFormed /\ svc_pc = "left" => HandlersRestored)
    /\ [][WellFormed /\ svc_pc = "left" => svc'.cancel = svc.cancel]_vars

\* two distinct signals, enable() called a second time, a signal handled
\* inside the scope and one delivered after it was left
LeftAfterTwoEnables ==
    /\ svc_pc = "left"
    /\ WellFormed
    /\ Len(svc.signals) = 2
    /\ svc_hist.enables = 1
    /\ svc_hist.handled = 1
    /\ svc_hist.delivered = 2
    /\ svc_hist.orig[svc.signals[1]] # svc_hist.orig[svc.signals[2]]

\* cancel is set exactly when handle_signal has run, which it has not before
\* the scope is entered, and the callback was called once for each run
CancelByHandler ==
    /\ svc.cancel <=> svc_hist.handled > 0
    /\ svc_pc = "new" => ~svc.cancel
    /\ svc.callback # "none" => svc_hist.calls = svc_hist.handled

InsideRuns == {i \in DOMAIN svc_runs : svc_runs[i].inside}

\* the asynchronous exit has returned without an exception
AexitReturned == svc_pc = "left" /\ svc.async /\ ~svc_hist.exc

\* C30: when the asynchronous exit has returned, every run of the callback
\* scheduled inside the scope is done, and callback_result is the return
\* value of the callback
C30_RunsCompleted ==
    (AexitReturned /\ WellFormed) =>
        /\ \A i \in InsideRuns : svc_runs[i].state = "done"
        /\ InsideRuns # {} =>
              svc.callback_result = [kind |-> "value", n |-> Len(svc_runs)]

\* when the asynchronous exit has returned, the run scheduled last is done
\* and callback_result is its return value
LastRunAwaited ==
    (AexitReturned /\ WellFormed /\ svc_runs # <<>>) =>
        /\ svc_runs[Len(svc_runs)].state = "done"
        /\ svc.callback_result = [kind |-> "value", n |-> Len(svc_runs)]

\* with one signal handled the run it scheduled is done when the
\* asynchronous exit has returned
OneRunCompleted ==
    (AexitReturned /\ WellFormed /\ svc_hist.handled = 1) =>
        \A i \in DOMAIN svc_runs : svc_runs[i].state = "done"

\* the asynchronous exit has returned after two signals, both runs done
TwoRunsAwaited ==
    /\ AexitReturned
    /\ WellFormed
    /\ Len(svc_runs) = 2
    /\ \A i \in DOMAIN svc_runs : svc_runs[i].state = "done"

-----------------------------------------------------------------------------
(* Properties of the hub's buffer: t_buffer, flushing, overflow, records *)

\* t_buffer is None exactly when the buffer is empty
TBufferUnsetIffEmpty == (t_buffer = NoTime) <=> (BufLen(buf) = 0)

\* the step is a pass of reader r through the loop body for a sample with the
\* timestamp t, the hub's Buffer having the attributes attrs
Sampled(r, t, attrs) == \E n \in ValueLens : ReaderSample(r, t, n, attrs)

\* how a step changes t_buffer: it is set only from None, by a reader that
\* appends to the empty buffer, to the timestamp of the record that is then
\* the first of the buffer; it is reset only with the buffer emptied; while
\* it stays set the first record of the buffer stays.
TBufferSteps(attrs) ==
    /\ (t_buffer' # t_buffer /\ t_buffer' # NoTime) =>
          /\ t_buffer = NoTime
          /\ BufLen(buf) = 0
          /\ \E r \in DOMAIN readers :
                /\ Sampled(r, t_buffer', attrs)
                /\ BufLen(buf') >= PrefixLen
                /\ data(buf')[1] = <<r, samples'[r], 1>>
    /\ (t_buffer # NoTime /\ t_buffer' = NoTime) => BufLen(buf') = 0
    /\ (t_buffer # NoTime /\ t_buffer' = t_buffer /\ BufLen(buf) > 0) =>
          /\ BufLen(buf') > 0
          /\ data(buf')[1] = data(buf)[1]

\* C31: between the steps of the readers t_buffer is None if and only if the
\* buffer is empty, and otherwise the timestamp of the first record in the
\* buffer: it is set only by an append to the empty buffer and reset only by
\* a flush, which empties the buffer.
C31_TBufferTracksBuffer ==
    /\ []TBufferUnsetIffEmpty
    /\ [][TBufferSteps(BufferAttrs)]_vars

\* the same with a Buffer whose clear() empties it
TBufferTracksClearedBuffer ==
    /\ []TBufferUnsetIffEmpty
    /\ [][TBufferSteps(BufferAttrsWithClear)]_vars

\* a record is in the buffer with t_buffer set, after a flush
TBufferSetAfterFlush ==
    /\ t_buffer # NoTime
    /\ BufLen(buf) > 0
    /\ enqueued # <<>>

\* a pass of a reader through the loop body that has appended its record
\* leaves the buffer empty, or below the high-water mark with the sample no
\* more than max_buffer_age later than t_buffer
FlushedOrFresh(attrs) ==
    \A r \in DOMAIN readers : \A t \in Times :
       (Sampled(r, t, attrs) /\ appended' # appended) =>
          \/ BufLen(buf') = 0
          \/ /\ ~is_full(buf')
             /\ t_buffer' # NoTime
             /\ t - t_buffer' <= max_buffer_age

\* C32: after every pass of a reader through the loop body (the append and
\* the decision to flush) the buffer is empty, or holds fewer bytes than the
\* high-water mark with the timestamp of the sample just appended at most
\* max_buffer_age above t_buffer.
C32_FlushOnSizeOrAge == [][FlushedOrFresh(BufferAttrs)]_vars

\* the same with a Buffer whose clear() empties it
FlushOnSizeOrAgeCleared == [][FlushedOrFresh(BufferAttrsWithClear)]_vars

-----------------------------------------------------------------------------
(* SpecFill: the hub with a larger buffer and longer streams of short records *)

\* most samples one reader's stream yields to the hub with the larger buffer
MaxSamplesFill == 5

\* InfluxHub(buffer_size=11): the high-water mark is int(0.9 * 11) = 9
FillBufferSize == 11

\* a record of n value bytes is no longer than capacity - high_water_mark
ShortRecord(n) == PrefixLen + n <= capacity(buf) - buf.high_water_mark

\* a stream yields a sample with a short record
FillSample(r, t, n, attrs) ==
    /\ samples[r] < MaxSamplesFill
    /\ ShortRecord(n)
    /\ LoopBody(r, t, n, attrs)

\* the hub with the Buffer of vzclient/buffer.py
NextFill ==
    \/ \E r \in DOMAIN readers : ReaderStart(r)
    \/ \E r \in DOMAIN readers : \E t \in Times : \E n \in ValueLens :
          FillSample(r, t, n, BufferAttrs)
    \/ \E r \in DOMAIN readers : ReaderEnd(r)
    \/ \E r \in DOMAIN readers : ReaderError(r)
    \/ \E r \in DOMAIN readers : ReaderCancelled(r, BufferAttrs)
    \/ \E w \in DOMAIN writers : WriterStart(w)
    \/ \E w \in DOMAIN writers : WriterCancelled(w)
    \/ StopCall
    \/ StopReadersDone
    \/ StopReadersTimeout
    \/ StopWritersDone
    \/ StopWritersTimeout

SpecFill == HubNew(FillBufferSize, NReaders) /\ [][NextFill]_vars

\* the hub with a Buffer whose clear() empties it, its writers left waiting
NextFillClear ==
    \/ \E r \in DOMAIN readers : ReaderStart(r)
    \/ \E r \in DOMAIN readers : \E t \in Times : \E n \in ValueLens :
          FillSample(r, t, n, BufferAttrsWithClear)
    \/ \E r \in DOMAIN readers : ReaderEnd(r)
    \/ \E r \in DOMAIN readers : ReaderError(r)
    \/ \E r \in DOMAIN readers : ReaderCancelled(r, BufferAttrsWithClear)
    \/ \E w \in DOMAIN writers : WriterStart(w)
    \/ StopCall
    \/ StopReadersDone
    \/ StopReadersTimeout

SpecFillClear == HubNew(FillBufferSize, NReaders) /\ [][NextFillClear]_vars

\* C33: when every record is at most capacity - high_water_mark bytes long
\* (the streams of SpecFill yield no other), no write of a reader to the
\* buffer raises BufferError, whatever the number of readers and the order of
\* their steps.
C33_NoOverflow == ~overflowed

\* with a Buffer whose clear() empties it a reader has flushed the buffer at
\* the high-water mark and another reader has appended after it
AppendedAfterFlush ==
    /\ enqueued # <<>>
    /\ Len(enqueued[1]) >= buf.high_water_mark
    /\ BufLen(buf) > 0
    /\ ~overflowed

-----------------------------------------------------------------------------
(* Conservation of the records between the readers and the queue *)

\* the record of the appended sample s = <<r, k, n>>: prefix and value
Record(s) == Prefix(s[1], s[2]) \o Value(s[1], s[2], s[3])

RECURSIVE Records(_)
\* the records of the samples ss, one after the other
Records(ss) == IF ss = <<>> THEN <<>> ELSE Record(Head(ss)) \o Records(Tail(ss))

\* the batches queued so far followed by the content of the buffer are the
\* records of the samples appended so far, in the order of their appends
RecordsConserved == Concat(enqueued) \o data(buf) = Records(appended)

\* C34: in every state the batches put on the queue so far, in their order,
\* followed by the content of the buffer are the complete records of the
\* samples appended so far, in the order they were appended, also after an
\* append has failed with overflow; and no batch put on the queue is empty.
C34_RecordsConserved ==
    /\ RecordsConserved
    /\ \A i \in DOMAIN enqueued : enqueued[i] # <<>>

\* as long as no write has overflowed the records are conserved and no batch
\* is empty
ConservedUntilOverflow == ~overflowed => C34_RecordsConserved

-----------------------------------------------------------------------------
(* DatabaseCopy: the options of the channels that share an include *)

\* the tasks of the channels that match the same include have each been
\* called with the options of that include as they are configured, the
\* drivers of source and destination included
SharedOptionsComplete ==
    \A j1, j2 \in DOMAIN copy_tasks :
        (j1 # j2 /\ jobs[j1].opts = jobs[j2].opts
                 /\ copy_tasks[j1].pc # "pending") =>
            /\ copy_tasks[j1].source = Configured.source
            /\ copy_tasks[j1].destination = Configured.destination

\* a step leaves the options that a task not yet started is going to be
\* called with as they are
OptionsUntouched ==
    \A j \in DOMAIN copy_tasks :
        (copy_tasks[j].pc = "pending" /\ j \in DOMAIN copy_tasks'
                                      /\ copy_tasks'[j].pc = "pending") =>
            includes'[jobs[j].opts] = includes[jobs[j].opts]

\* C35: when several channels match the same include, the task of each of
\* them runs with the complete options of that include, the source and the
\* destination driver included, and the steps of the task of one channel
\* leave the options of the tasks of the other channels unchanged.
C35_OptionsPerChannel ==
    /\ []SharedOptionsComplete
    /\ [][OptionsUntouched]_vars

\* the options of the includes that a step of a task leaves unchanged: all
\* but the drivers of the include of the task
OnlyDriversPopped ==
    [][\A i \in DOMAIN includes :
          /\ includes'[i].pattern = includes[i].pattern
          /\ includes'[i].source \subseteq includes[i].source
          /\ includes[i].source \ includes'[i].source \subseteq {"driver"}
          /\ includes'[i].destination \subseteq includes[i].destination
          /\ includes[i].destination \ includes'[i].destination
                \subseteq {"driver"}]_vars

-----------------------------------------------------------------------------
(* Compressor: no point is emitted twice *)

\* C36: for an input with strictly increasing x and any max_gap, set or
\* unset, the x values of the output of compress followed by finalize are
\* strictly increasing, and the output is a sub-sequence of the input.
C36_NoPointTwice ==
    (Done /\ XIncreasing(chunk))
        => /\ XIncreasing(yielded)
           /\ IsSubSequence(yielded, chunk)

\* no two adjacent samples of s are more than gap apart in x
StepsWithin(s, gap) ==
    \A i \in 1..(Len(s) - 1) : s[i + 1][1] - s[i][1] <= gap

\* the same holds with max_gap unset, and with max_gap set for an input whose
\* adjacent samples are no more than max_gap apart
NoPointTwiceWithinGap ==
    (/\ Done
     /\ XIncreasing(chunk)
     /\ compressor.max_gap # None => StepsWithin(chunk, compressor.max_gap))
        => /\ XIncreasing(yielded)
           /\ IsSubSequence(yielded, chunk)

-----------------------------------------------------------------------------
(* vzclient/asyncio/compress.py: the asynchronous compress_const *)

\* most chunks the stream delivers
MaxChunks == 3
\* most samples in one chunk
MaxChunkSamples == 2
\* largest x and largest y of a sample in a chunk
MaxChunkX == 3
MaxChunkY == 2
\* largest max_gap
MaxChunkGap == 2

\* the chunks a stream may deliver, the empty chunk among them
Chunks == SeqsOf((1..MaxChunkX) \X (1..MaxChunkY), 0, MaxChunkSamples)

RECURSIVE CompressChunk(_, _)
\* list(compressor.compress(chunk)): the loop of Compressor.compress over the
\* samples of a chunk; the object it leaves and the samples yielded
CompressChunk(c, ch) ==
    IF ch = <<>> THEN [c |-> c, out |-> <<>>]
    ELSE LET r == compress(c, Head(ch)[1], Head(ch)[2])
             rest == CompressChunk(r.c, Tail(ch))
         IN [c |-> rest.c, out |-> r.out \o rest.out]

\* the synchronous compress_const(iterable, max_gap) of vzclient/compress.py:
\* Compressor.__call__ on the whole input
compress_const(s, gap) ==
    IF s = <<>> THEN <<>>
    ELSE LET c == iter(CompressorNew(gap), Head(s)[1], Head(s)[2])
             r == CompressChunk(c, Tail(s))
         IN r.out \o finalize(r.c)

\* the asynchronous compress_const called with a stream and any max_gap
InitAsync ==
    /\ \E gap \in {None} \cup 1..MaxChunkGap : async_comp = CompressorNew(gap)
    /\ async_in = <<>>
    /\ async_out = <<>>
    /\ async_pc = "first"
    /\ NoBuffer
    /\ NoHub
    /\ NoCompressor
    /\ NoDevice
    /\ NoCopy
    /\ NoSql
    /\ NoSink
    /\ NoPrefix
    /\ NoService
    /\ NoSecond

asyncFrame ==
    <<bufVars, hubVars, histVars, compVars, devVars, copyVars, sqlVars,
      sinkWriterVars, prefixVars, svcVars, second_iter>>

\* the stream delivers its first chunk: compressor.iter(chunk) takes the
\* first sample and compress the others. On an empty chunk next(it) raises
\* StopIteration, which leaves the asynchronous generator as a RuntimeError
\* (except StopAsyncIteration does not catch it).
AsyncFirst(ch) ==
    /\ async_pc = "first"
    /\ async_in' = <<ch>>
    /\ IF ch = <<>>
       THEN /\ async_pc' = "raised"
            /\ UNCHANGED <<async_comp, async_out>>
       ELSE LET r == CompressChunk(
                        iter(async_comp, Head(ch)[1], Head(ch)[2]), Tail(ch))
            IN /\ async_comp' = r.c
               /\ async_out' = <<r.out>>
               /\ async_pc' = "loop"
    /\ UNCHANGED asyncFrame

\* the stream ends without a chunk: StopAsyncIteration, nothing is yielded
AsyncEmpty ==
    /\ async_pc = "first"
    /\ async_pc' = "done"
    /\ UNCHANGED <<async_comp, async_in, async_out, asyncFrame>>

\* the stream delivers a later chunk: yield list(compressor.compress(chunk))
AsyncNext(ch) ==
    /\ async_pc = "loop"
    /\ Len(async_in) < MaxChunks
    /\ LET r == CompressChunk(async_comp, ch)
       IN /\ async_comp' = r.c
          /\ async_out' = Append(async_out, r.out)
    /\ async_in' = Append(async_in, ch)
    /\ UNCHANGED <<async_pc, asyncFrame>>

\* the stream ends: yield list(compressor.finalize())
AsyncFinalize ==
    /\ async_pc = "loop"
    /\ async_out' = Append(async_out, finalize(async_comp))
    /\ async_pc' = "done"
    /\ UNCHANGED <<async_comp, async_in, asyncFrame>>

NextAsync ==
    \/ \E ch \in Chunks : AsyncFirst(ch)
    \/ AsyncEmpty
    \/ \E ch \in Chunks : AsyncNext(ch)
    \/ AsyncFinalize

SpecAsync == InitAsync /\ [][NextAsync]_vars

\* the samples the asynchronous compress_const has yielded are those the
\* synchronous one yields for the samples of the chunks delivered
SameAsWhole ==
    Concat(async_out) = compress_const(Concat(async_in), async_comp.max_gap)

\* C37: for every stream of chunks, empty chunks and an empty first chunk
\* included, the asynchronous compress_const ends without an exception, and
\* the lists it has yielded, joined, are the output of the synchronous
\* compress_const on the joined chunks, for the same max_gap.
C37_ChunkedEqualsWhole ==
    /\ async_pc # "raised"
    /\ async_pc = "done" => SameAsWhole

\* the same for a stream that does not begin with an empty chunk
ChunkedEqualsWholeAfterSample ==
    async_pc = "done" => SameAsWhole

\* a stream with an empty chunk in the middle of a constant phase was
\* compressed as the joined input is
EmptyChunkInside ==
    /\ async_pc = "done"
    /\ Len(async_in) = 3
    /\ async_in[2] = <<>>
    /\ Len(async_in[1]) = 2
    /\ Len(async_in[3]) = 2
    /\ Len(Concat(async_out)) = 2
    /\ SameAsWhole

-----------------------------------------------------------------------------
(* DeviceReader: a second iteration of the same reader *)
(* The consumer of SpecStop is joined by a second one, which iterates the  *)
(* reader after the first has started.                                     *)

\* most calls of read_device made by the two iterations together
MaxReadsSecond == 2

\* what no step of the second iteration changes
secondFrame ==
    <<bufVars, hubVars, histVars, compVars, copyVars, sqlVars, sinkWriterVars,
      prefixVars, svcVars, asyncVars>>

\* a second consumer starts to iterate the reader: __aiter__ raises
\* RuntimeError when the stop flag is not set, else it clears the flag and
\* enters its first loop
SecondAiter ==
    /\ aiter_pc \notin {"none", "new"}
    /\ second_iter.pc = "none"
    /\ IF ~reader.stop
       THEN /\ second_iter' = [second_iter EXCEPT !.pc = "raised"]
            /\ reader' = reader
       ELSE /\ second_iter' = [second_iter EXCEPT !.pc = "prime"]
            /\ reader' = [reader EXCEPT !.stop = FALSE]
    /\ UNCHANGED <<aiter_pc, exc, budget, reads, failed, emitted, stop_call,
                   secondFrame>>

\* the loops of the second iteration are running and the stop flag is not set
SecondReading == second_iter.pc \in {"prime", "steady"} /\ ~reader.stop

\* one pass of a loop of the second iteration in which read_device returns
\* the reading (t, y)
SecondReadOk(t, y) ==
    /\ SecondReading
    /\ reads < MaxReadsSecond
    /\ reads' = reads + 1
    /\ reader' = UpdateRead(reader, t, y)
    /\ LET out == Yield(reader', second_iter.pc)
       IN second_iter' =
             IF out.exc # "none"
             THEN [second_iter EXCEPT !.pc = "raised"]
             ELSE [pc |-> "steady",
                   emitted |-> IF out.sample = <<>> THEN second_iter.emitted
                               ELSE Append(second_iter.emitted, out.sample)]
    /\ UNCHANGED <<aiter_pc, exc, budget, failed, emitted, stop_call,
                   secondFrame>>

\* one pass of a loop of the second iteration in which read_device raises
SecondReadFail ==
    /\ SecondReading
    /\ reads < MaxReadsSecond
    /\ reads' = reads + 1
    /\ failed' = failed + 1
    /\ IF UpdateRaises(reader)
       THEN /\ second_iter' = [second_iter EXCEPT !.pc = "raised"]
            /\ reader' = reader
       ELSE /\ reader' = UpdateFailed(reader)
            /\ second_iter' = second_iter
    /\ UNCHANGED <<aiter_pc, exc, budget, emitted, stop_call, secondFrame>>

\* the loops of the second iteration see the stop flag and its sequence ends
SecondAiterEnd ==
    /\ second_iter.pc \in {"prime", "steady"}
    /\ reader.stop
    /\ reader' = [reader EXCEPT !.stop = FALSE]
    /\ second_iter' = [second_iter EXCEPT !.pc = "ended"]
    /\ UNCHANGED <<aiter_pc, exc, budget, reads, failed, emitted, stop_call,
                   secondFrame>>

NextSecond ==
    \/ Aiter
    \/ \E t \in 1..MaxTimeStop : \E y \in 1..MaxValueStop :
          ReadOk(t, y, MaxReadsSecond)
    \/ ReadFail(MaxReadsSecond)
    \/ \E n \in (0 - 1)..MaxStopRetries : Stop(n)
    \/ StopWake
    \/ AiterEnd
    \/ SecondAiter
    \/ \E t \in 1..MaxTimeStop : \E y \in 1..MaxValueStop : SecondReadOk(t, y)
    \/ SecondReadFail
    \/ SecondAiterEnd

SpecSecond == InitStop /\ [][NextSecond]_vars

\* the loops of the second iteration have not been left
SecondLoopActive == second_iter.pc \in {"prime", "steady"}

\* an iteration started while the loops of the other have not been left
\* fails with an error
StartWhileActiveFails ==
    (second_iter.pc = "none" /\ second_iter'.pc # "none" /\ LoopActive)
        => second_iter'.pc = "raised"

\* C38: whatever the order of the starts of iterations and of the calls of
\* stop() on one reader, an iteration started while the loop of another has
\* not been left fails with an error, and the loops of two iterations are
\* never active on the reader at the same time.
C38_OneActiveIteration ==
    /\ [](~(LoopActive /\ SecondLoopActive))
    /\ [][StartWhileActiveFails]_vars

\* as long as stop() has not been called the second iteration fails at its
\* start and never enters a loop
OneActiveWithoutStop ==
    stop_call = NoStopCall =>
        /\ ~(LoopActive /\ SecondLoopActive)
        /\ (second_iter.pc # "none" /\ LoopActive) => second_iter.pc = "raised"

\* both iterations have read from the device, after a call of stop() that
\* returned True
BothLoopsRead ==
    /\ aiter_pc = "steady"
    /\ second_iter.pc = "steady"
    /\ stop_call.ret = "True"

-----------------------------------------------------------------------------
(* DeviceReader: readings that repeat a timestamp *)

\* the step is a successful reading of an interpolating reader in its
\* read-out loop
SteadyReading ==
    /\ reader.interpolate
    /\ aiter_pc = "steady"
    /\ reads' = reads + 1
    /\ failed' = failed

\* the step yields one sample and the sequence goes on
OneSampleMore ==
    /\ Len(emitted') = Len(emitted) + 1
    /\ aiter_pc' = "steady"
    /\ exc' = "none"

\* C39: with interpolate on, a successful reading of the read-out loop whose
\* timestamp is not below that of the reading before, the same timestamp
\* included, yields one sample, and the sequence does not end with an error.
C39_NeverRefuses ==
    [][(SteadyReading /\ reader'.t1 >= reader.t1) => OneSampleMore]_vars

\* the same for a reading later than the reading before
LaterReadingYields ==
    [][(SteadyReading /\ reader'.t1 > reader.t1) => OneSampleMore]_vars

-----------------------------------------------------------------------------
(* InfluxHub: stop() is called again *)

\* calls of stop() on one hub
MaxStopsAgain == 2

\* the hub with the Buffer of vzclient/buffer.py, stopped up to MaxStopsAgain
\* times; a call of stop() starts when the call before it is over
NextAgain ==
    \/ \E r \in DOMAIN readers : ReaderStart(r)
    \/ \E r \in DOMAIN readers : \E t \in Times : \E n \in ValueLens :
          ReaderSample(r, t, n, BufferAttrs)
    \/ \E r \in DOMAIN readers : ReaderEnd(r)
    \/ \E r \in DOMAIN readers : ReaderError(r)
    \/ \E r \in DOMAIN readers : ReaderCancelled(r, BufferAttrs)
    \/ \E w \in DOMAIN writers : WriterStart(w)
    \/ \E w \in DOMAIN writers : WriterCancelled(w)
    \/ StopCallUpTo(MaxStopsAgain)
    \/ StopReadersDone
    \/ StopReadersTimeout
    \/ StopWritersDone
    \/ StopWritersTimeout

SpecAgain == InitHub(NReaders) /\ [][NextAgain]_vars

\* a call of stop() after one that ran to its end and settled the future is
\* in progress
StoppedAgain ==
    /\ stops >= 2
    /\ future # "pending"
    /\ stop_pc \in {"readers", "writers"}

\* C40: a stop() on a hub that an earlier stop() has stopped completes
\* without raising, and the outcome of the hub's future stays as the earlier
\* stop() set it.
C40_StopRepeats ==
    [][StoppedAgain => (stop_pc' # "raised" /\ future' = future)]_vars

\* the outcome of the hub's future stays as the earlier stop() set it
OutcomeKept == [][future # "pending" => future' = future]_vars

\* no stop() on a stopped hub returns
StopAgainNeverReturns == [][StoppedAgain => stop_pc' # "done"]_vars

=============================================================================
